---- MODULE Spec2Model ----
(***************************************************************************)
(* Airport ground-operations simulator.                                    *)
(*                                                                         *)
(* The model follows the driver loop of runner.py (one action per tick),   *)
(* the movement kernel of model_core.py, the capacity book-keeper of       *)
(* capacity.py, the spawner of spawning.py, the router of routing.py and   *)
(* the rule layer of rules.py.                                             *)
(*                                                                         *)
(* Units.  Time is in seconds, distance in metres.  The field `speed` of   *)
(* an aircraft holds speed * dt, the metres covered per tick, so that the  *)
(* gap brake  v = max(0, gap - 10) / dt  stays an integer: every kernel    *)
(* formula is the source's formula multiplied through by dt.  Python's     *)
(* None is NoId for an identifier, NoTime for a time, "none" for a string  *)
(* and NoRoute for a route.  Python's 0-based indices are kept: the        *)
(* current edge of an aircraft is route.edges[current_edge_idx + 1].       *)
(***************************************************************************)
EXTENDS Integers, Naturals, Sequences, FiniteSets, TLC

\* ---------------------------------------------------------------- bounds
\* Number of ticks of a run (total_duration / time_step_size).
MaxTicks == 10
\* Number of aircraft one run may spawn; the spawn draws stop succeeding then.
MaxAircraft == 2
\* Number of braking draws of a run that may come out below p_slow.
MaxBrakes == 2

\* ------------------------------------------------------------- sentinels
NoId == 0
NoTime == -1
PENDING == -1
NoRoute == [edges |-> <<>>, origin_node |-> NoId, destination_node |-> NoId,
            total_length |-> 0]

\* ------------------------------------------------- model_core.py constants
DEFAULT_ACCELERATION == 2
SAFETY_BUFFER == 10
EVICTION_GRACE == 60
\* DEFAULT_P_SLOW = 0.2 is the weight of the braking draw; the draw itself is
\* the Boolean input `brake` of nasch_step.

\* ------------------------------------------------------------ enumerations
Classes == {"small", "medium", "large"}
Terminal == {"departed", "parked"}
\* "single_gate" is the linear layout under mixed traffic: arrivals and
\* departures compete for its one gate.
Scenarios == {"linear", "airfield", "restricted", "single_gate",
              "no_gate", "broken", "unknown_mode", "negative_rate"}
TrafficModes == {"departures_only", "arrivals_only", "mixed"}
ParamModes == {"off", "fixed", "random", "realistic"}
PriorityModes == {"fifo", "depart_first", "arrive_first", "weighted",
                  "size_priority", "random"}

\* ----------------------------------------------------------------- layouts
\* A node: node_type, name tag (the runway direction its name contains, or
\* "none"), size_class.  An edge: the fields of layout.Edge that the core reads.
Node(t, dir, size) == [node_type |-> t, dir |-> dir, size_class |-> size]
Edge(t, s, e, len, flow, oneway, hint, cap) ==
    [edge_type |-> t, start_node |-> s, end_node |-> e, length |-> len,
     allowed_flow |-> flow, one_way |-> oneway, speed_hint |-> hint,
     capacity_hint |-> cap]

\* Scenario 2 of the specification: gate -> hold point -> runway -> runway end.
LinearLayout ==
    [nodes |-> <<Node("gate", "none", "none"),
                 Node("hold_point", "none", "none"),
                 Node("runway_end", "27", "none")>>,
     edges |-> <<Edge("taxiway", 1, 2, 300, "both", FALSE, 0, 0),
                 Edge("runway", 2, 3, 360, "both", FALSE, 0, 0)>>]

\* Two gates behind a shared taxiway, one hold point, a runway of two edges.
AirfieldLayout ==
    [nodes |-> <<Node("gate", "none", "medium"),
                 Node("gate", "none", "none"),
                 Node("intersection", "none", "none"),
                 Node("hold_point", "none", "none"),
                 Node("runway_exit", "none", "none"),
                 Node("runway_end", "27", "none")>>,
     edges |-> <<Edge("apron_link", 1, 3, 90, "both", FALSE, 0, 0),
                 Edge("apron_link", 2, 3, 60, "both", FALSE, 0, 0),
                 Edge("taxiway", 3, 4, 300, "both", FALSE, 0, 0),
                 Edge("runway", 4, 5, 360, "both", FALSE, 0, 0),
                 Edge("runway", 5, 6, 180, "both", FALSE, 0, 0)>>]

\* The linear layout with a taxiway that only departures may use
\* (allowed_flow = "departure"): no arrival has a route to the gate.
RestrictedLayout ==
    [nodes |-> <<Node("gate", "none", "none"),
                 Node("hold_point", "none", "none"),
                 Node("runway_end", "27", "none")>>,
     edges |-> <<Edge("taxiway", 1, 2, 300, "departure", FALSE, 0, 0),
                 Edge("runway", 2, 3, 360, "both", FALSE, 0, 0)>>]

\* A layout without a gate node.
NoGateLayout ==
    [nodes |-> <<Node("hold_point", "none", "none"),
                 Node("runway_end", "27", "none")>>,
     edges |-> <<Edge("runway", 1, 2, 360, "both", FALSE, 0, 0)>>]

\* A layout that breaks every structural rule: an edge between two node ids
\* that do not exist, no runway edge, no gate, no runway end.
BrokenLayout ==
    [nodes |-> <<Node("intersection", "none", "none")>>,
     edges |-> <<Edge("taxiway", 8, 9, 300, "both", FALSE, 0, 0)>>]

\* Scenario 5 of the specification: a diamond of taxiways between the gate
\* and the hold point.  The north side (edges 2, 3) is the shorter one and
\* ends in a one-way edge; the south side (edges 4, 5) ends in a
\* departure-only edge; arrivals leave the runway end by a one-way rapid exit
\* (edge 6) and may cut across by an arrival-only edge (edge 8); a long
\* bypass (edge 9) joins the first junction and the hold point.
DiamondLayout ==
    [nodes |-> <<Node("gate", "none", "none"),
                 Node("intersection", "none", "none"),
                 Node("intersection", "none", "none"),
                 Node("intersection", "none", "none"),
                 Node("hold_point", "none", "none"),
                 Node("runway_end", "27", "none")>>,
     edges |-> <<Edge("apron_link", 1, 2, 60, "both", FALSE, 0, 0),
                 Edge("taxiway", 2, 3, 100, "both", FALSE, 0, 0),
                 Edge("taxiway", 3, 5, 100, "both", TRUE, 0, 0),
                 Edge("taxiway", 2, 4, 150, "both", FALSE, 0, 0),
                 Edge("taxiway", 4, 5, 150, "departure", FALSE, 0, 0),
                 Edge("rapid_exit", 6, 4, 120, "both", TRUE, 0, 0),
                 Edge("runway", 5, 6, 360, "both", FALSE, 0, 0),
                 Edge("taxiway", 4, 3, 50, "arrival", FALSE, 0, 0),
                 Edge("taxiway", 2, 5, 400, "both", FALSE, 0, 0)>>]

LayoutOf(sc) ==
    IF sc \in {"linear", "single_gate", "unknown_mode", "negative_rate"} THEN LinearLayout
    ELSE IF sc = "restricted" THEN RestrictedLayout
    ELSE IF sc = "no_gate" THEN NoGateLayout
    ELSE IF sc = "broken" THEN BrokenLayout
    ELSE IF sc = "diamond" THEN DiamondLayout
    ELSE AirfieldLayout

NodeIds(layout) == DOMAIN layout.nodes
EdgeIds(layout) == DOMAIN layout.edges
get_nodes_by_type(layout, t) == {n \in NodeIds(layout) : layout.nodes[n].node_type = t}
get_edges_by_type(layout, t) == {e \in EdgeIds(layout) : layout.edges[e].edge_type = t}
get_gates(layout) == get_nodes_by_type(layout, "gate")
get_hold_points(layout) == get_nodes_by_type(layout, "hold_point")
get_runway_ends(layout) == get_nodes_by_type(layout, "runway_end")

\* Layout.validate: the list of error messages, in the order the checks run.
RECURSIVE endpoint_errors(_, _)
endpoint_errors(layout, e) ==
    IF e > Len(layout.edges) THEN <<>>
    ELSE (IF layout.edges[e].start_node \notin NodeIds(layout)
          THEN <<[msg |-> "start node not found", edge |-> e]>> ELSE <<>>)
         \o (IF layout.edges[e].end_node \notin NodeIds(layout)
             THEN <<[msg |-> "end node not found", edge |-> e]>> ELSE <<>>)
         \o endpoint_errors(layout, e + 1)

\* A validation that reports nothing.
validate_finds_nothing(layout) == <<>>

validate(layout) ==
    endpoint_errors(layout, 1)
    \o (IF get_edges_by_type(layout, "runway") = {}
        THEN <<[msg |-> "Layout has no runway edges", edge |-> NoId]>> ELSE <<>>)
    \o (IF get_gates(layout) = {}
        THEN <<[msg |-> "Layout has no gate nodes", edge |-> NoId]>> ELSE <<>>)
    \o (IF get_runway_ends(layout) = {}
        THEN <<[msg |-> "Layout has no runway end nodes", edge |-> NoId]>> ELSE <<>>)

\* Layout.add_edge: an edge is listed under its start node, and under its end
\* node too when it is not one-way.
get_edges_from_node(layout, n) ==
    {e \in EdgeIds(layout) :
        \/ layout.edges[e].start_node = n
        \/ (~layout.edges[e].one_way /\ layout.edges[e].end_node = n)}

\* --------------------------------------------------------------- parameters
\* The parameter bundle of a scenario.  Multipliers are in percent.
Params(sc) ==
    [time_step_size |-> 30,
     total_duration |-> MaxTicks * 30,
     traffic_mode |-> IF sc \in {"linear", "negative_rate"} THEN "departures_only"
                      ELSE IF sc = "unknown_mode" THEN "both"
                      ELSE "mixed",
     departure_spawn_rate |-> [mode |-> "fixed",
                               value |-> IF sc = "negative_rate" THEN -1 ELSE 1],
     arrival_spawn_rate |-> [mode |-> "fixed", value |-> 1],
     departure_class_mix |-> {"medium", "large"},
     arrival_class_mix |-> {"medium"},
     weather_condition |-> "good",
     wind_speed |-> 0,
     wind_direction |-> 180,
     runway_priority_mode |-> "fifo",
     intersection_priority_mode |-> "fifo",
     hold_release_priority |-> "fifo",
     random_seed |-> 42,
     speed_base |-> [small |-> 5, medium |-> 6, large |-> 4],
     speed_mult_section |-> [runway |-> 100, taxiway |-> 80, apron |-> 50],
     speed_mult_weather |-> [good |-> 100, mild |-> 90, bad |-> 70]]

\* SimulationParams.from_dict raises ValueError when a value handed to an Enum
\* constructor (ParamMode, TrafficMode, PriorityMode) is not one of its
\* members; every other value is stored as it comes.
from_dict_raises(data) ==
    \/ data.departure_spawn_rate.mode \notin ParamModes
    \/ data.arrival_spawn_rate.mode \notin ParamModes
    \/ data.traffic_mode \notin TrafficModes
    \/ data.runway_priority_mode \notin PriorityModes
    \/ data.intersection_priority_mode \notin PriorityModes
    \/ data.hold_release_priority \notin PriorityModes

\* Parameter.from_dict: a dict with a "mode" key goes through ParamMode(...),
\* which raises ValueError for an unknown mode; any other value becomes a
\* fixed Parameter holding it.  Result: [error, param].
Parameter_from_dict(is_dict, data) ==
    IF is_dict /\ "mode" \in DOMAIN data
    THEN IF data.mode \in ParamModes
         THEN [error |-> "none", param |-> [mode |-> data.mode, value |-> data.value]]
         ELSE [error |-> "ValueError", param |-> [mode |-> data.mode, value |-> data.value]]
    ELSE [error |-> "none", param |-> [mode |-> "fixed", value |-> data]]

\* The SimulationParams object SimulationParams.from_dict builds: the three
\* environment values are Parameter objects, the priority modes Enum members.
ParamsObject(sc) ==
    [Params(sc) EXCEPT !.weather_condition = [mode |-> "fixed", value |-> @],
                       !.wind_speed = [mode |-> "fixed", value |-> @],
                       !.wind_direction = [mode |-> "fixed", value |-> @]]

\* SimulationParams.__post_init__: _rng = random.Random(random_seed).  The
\* generator's state is the seed it was built from and the number of draws
\* taken from it since.
SeededRng(seed) == [seed |-> seed, draws |-> 0]

\* apply_midrun_update: safe_params, split by the type of the attribute.
ParameterAttrs == {"departure_spawn_rate", "arrival_spawn_rate",
                   "weather_condition", "wind_speed", "wind_direction"}
EnumAttrs == {"runway_priority_mode", "intersection_priority_mode",
              "hold_release_priority"}
safe_params == ParameterAttrs \cup EnumAttrs

\* One round of the loop with random_seed treated as a safe key that also
\* reseeds the generator.
apply_item_honours_seed(obj, item) ==
    IF item.key = "random_seed"
    THEN [obj EXCEPT !.params.random_seed = item.value,
                     !.rng = SeededRng(item.value)]
    ELSE IF item.key \in ParameterAttrs
    THEN IF item.is_dict
         THEN [obj EXCEPT !.params[item.key] =
                              Parameter_from_dict(TRUE, item.value).param,
                          !.error = Parameter_from_dict(TRUE, item.value).error]
         ELSE [obj EXCEPT !.params[item.key].value = item.value]
    ELSE IF item.key \in EnumAttrs /\ item.value \in PriorityModes
    THEN [obj EXCEPT !.params[item.key] = item.value]
    ELSE IF item.key \in EnumAttrs
    THEN [obj EXCEPT !.error = "ValueError"]
    ELSE obj

\* One round of the loop of apply_midrun_update on the object obj =
\* [params, rng, error, calls]: a key outside safe_params is skipped; a Parameter
\* attribute is replaced by Parameter.from_dict(value) for a dict and gets its
\* value overwritten otherwise; an Enum attribute is replaced by
\* enum_class(value), which raises ValueError for a value that is no member.
\* A raise leaves the attribute as it was.
apply_item(obj, item) ==
    IF item.key \notin safe_params THEN obj
    ELSE IF item.key \in ParameterAttrs
    THEN IF item.is_dict
         THEN LET set(r) == IF r.error = "none"
                            THEN [obj EXCEPT !.params[item.key] = r.param]
                            ELSE [obj EXCEPT !.error = r.error]
              IN  set(Parameter_from_dict(TRUE, item.value))
         ELSE [obj EXCEPT !.params[item.key].value = item.value]
    ELSE IF item.value \in PriorityModes
    THEN [obj EXCEPT !.params[item.key] = item.value]
    ELSE [obj EXCEPT !.error = "ValueError"]

\* apply_midrun_update(updates): the items of the dict in insertion order; the
\* exception of one item ends the call with the earlier items applied.
RECURSIVE apply_items(_, _)
apply_items(obj, updates) ==
    IF updates = <<>> \/ obj.error # "none" THEN obj
    ELSE apply_items(apply_item(obj, Head(updates)), Tail(updates))

apply_midrun_update(obj, updates) ==
    apply_items([obj EXCEPT !.error = "none"], updates)

\* Parameter.evaluate for the modes the scenarios use: off -> None (0 after
\* the caller's `or 0.0`), fixed -> value.
evaluate(param) == IF param.mode = "off" THEN 0 ELSE param.value

\* get_spawn_rate without the two traffic_mode tests.
get_spawn_rate_any_mode(params, is_arrival) ==
    evaluate(IF is_arrival THEN params.arrival_spawn_rate
             ELSE params.departure_spawn_rate)

get_spawn_rate(params, is_arrival) ==
    IF params.traffic_mode = "departures_only" /\ is_arrival THEN 0
    ELSE IF params.traffic_mode = "arrivals_only" /\ ~is_arrival THEN 0
    ELSE evaluate(IF is_arrival THEN params.arrival_spawn_rate
                  ELSE params.departure_spawn_rate)

\* ------------------------------------------------------------------- rules
can_access(edge, aircraft_class, is_arrival) ==
    /\ ~(edge.allowed_flow = "arrival" /\ ~is_arrival)
    /\ ~(edge.allowed_flow = "departure" /\ is_arrival)
    /\ ~(edge.edge_type = "rapid_exit" /\ ~is_arrival)

get_section_type(edge) ==
    IF edge.edge_type = "runway" THEN "runway"
    ELSE IF edge.edge_type = "apron_link" THEN "apron"
    ELSE "taxiway"

\* params.get_speed_limit and rules.get_speed_limit, times dt (metres per
\* tick); speed_hint = 0 stands for "no hint".
get_speed_limit(edge, aircraft_class, params) ==
    LET calculated == (params.speed_base[aircraft_class]
                       * params.speed_mult_section[get_section_type(edge)]
                       * params.speed_mult_weather[params.weather_condition]
                       * params.time_step_size) \div 10000
        hint == edge.speed_hint * params.time_step_size
    IN  IF edge.speed_hint # 0 /\ hint < calculated THEN hint ELSE calculated

get_active_runway_direction(wind_direction) ==
    IF 180 <= wind_direction % 360 /\ wind_direction % 360 < 360 THEN "27" ELSE "09"

\* ----------------------------------------------------------------- routing
\* Python's list comparison p < q on edge-id lists (the heap's tie-break).
RECURSIVE PathLess(_, _)
PathLess(p, q) ==
    IF p = <<>> THEN q # <<>>
    ELSE IF q = <<>> THEN FALSE
    ELSE IF Head(p) # Head(q) THEN Head(p) < Head(q)
    ELSE PathLess(Tail(p), Tail(q))

\* Tuple order of the heap entries (dist, node_id, path_edges).
EntryLess(a, b) ==
    \/ a.dist < b.dist
    \/ a.dist = b.dist /\ a.node < b.node
    \/ a.dist = b.dist /\ a.node = b.node /\ PathLess(a.path, b.path)

\* A pop that takes the greatest entry.
heappop_greatest(pq) == CHOOSE a \in pq : \A b \in pq \ {a} : EntryLess(b, a)

heappop(pq) == CHOOSE a \in pq : \A b \in pq \ {a} : EntryLess(a, b)

\* The while-loop of Router.find_route: pop the least entry, skip a visited
\* node, stop at the destination, else push every legal, unvisited neighbour.
RECURSIVE find_route_loop(_, _, _, _, _, _, _)
find_route_loop(layout, pq, visited, origin_id, destination_id, aircraft_class, is_arrival) ==
    IF pq = {} THEN NoRoute
    ELSE
      LET top == heappop(pq)
          rest == pq \ {top}
      IN  IF top.node \in visited
          THEN find_route_loop(layout, rest, visited, origin_id, destination_id,
                               aircraft_class, is_arrival)
          ELSE IF top.node = destination_id
          THEN [edges |-> top.path, origin_node |-> origin_id,
                destination_node |-> destination_id, total_length |-> top.dist]
          ELSE
            LET seen == visited \cup {top.node}
                next_id(e) == IF layout.edges[e].start_node = top.node
                              THEN layout.edges[e].end_node
                              ELSE layout.edges[e].start_node
                pushed == {[dist |-> top.dist + layout.edges[e].length,
                            node |-> next_id(e),
                            path |-> Append(top.path, e)] :
                           e \in {x \in get_edges_from_node(layout, top.node) :
                                     /\ next_id(x) \notin seen
                                     /\ can_access(layout.edges[x], aircraft_class,
                                                   is_arrival)}}
            IN  find_route_loop(layout, rest \cup pushed, seen, origin_id,
                                destination_id, aircraft_class, is_arrival)

CacheKey(o, d, c, arr) == <<o, d, c, arr>>

\* Router.find_route: the cached route when the key is cached, else the search.
\* The cache is read here and never written.
find_route(layout, cache, origin_id, destination_id, aircraft_class, is_arrival) ==
    IF CacheKey(origin_id, destination_id, aircraft_class, is_arrival) \in DOMAIN cache
    THEN cache[CacheKey(origin_id, destination_id, aircraft_class, is_arrival)]
    ELSE IF origin_id \notin NodeIds(layout) \/ destination_id \notin NodeIds(layout)
    THEN NoRoute
    ELSE find_route_loop(layout, {[dist |-> 0, node |-> origin_id, path |-> <<>>]}, {},
                         origin_id, destination_id, aircraft_class, is_arrival)

EmptyCache == [k \in {} |-> NoRoute]

\* Router.precompute_routes: gates x runway points, per class, both directions;
\* only non-null, non-empty routes are stored.
precompute_routes(layout) ==
    LET points == get_runway_ends(layout) \cup get_nodes_by_type(layout, "runway_entry")
                  \cup get_nodes_by_type(layout, "runway_exit")
        dep == {CacheKey(g, p, c, FALSE) : g \in get_gates(layout), p \in points,
                                           c \in Classes}
        arr == {CacheKey(p, g, c, TRUE) : p \in points, g \in get_gates(layout),
                                          c \in Classes}
        route(k) == find_route(layout, EmptyCache, k[1], k[2], k[3], k[4])
    IN  [k \in {x \in dep \cup arr : route(x) # NoRoute /\ route(x).edges # <<>>}
            |-> route(k)]

get_route(layout, cache, origin_id, destination_id, aircraft_class, is_arrival) ==
    find_route(layout, cache, origin_id, destination_id, aircraft_class, is_arrival)

\* reroute_if_needed 214-224 with every remaining edge taken for blocked.
needs_reroute_always(original_route, current_edge_idx, blocked_edges) == TRUE

\* reroute_if_needed 214-224: original_route.edges[current_edge_idx:] holds a
\* blocked edge.
needs_reroute(original_route, current_edge_idx, blocked_edges) ==
    \E i \in DOMAIN original_route.edges :
        i > current_edge_idx /\ original_route.edges[i] \in blocked_edges

\* reroute_if_needed 267-270 without the congestion penalty.
edge_cost_plain(layout, e, congested_edges) == layout.edges[e].length

\* reroute_if_needed 267-270: the length, doubled on a congested edge.
edge_cost(layout, e, congested_edges) ==
    IF e \in congested_edges THEN 2 * layout.edges[e].length
    ELSE layout.edges[e].length

\* The while-loop of reroute_if_needed: the search of find_route from the
\* current node, skipping blocked edges and charging edge_cost.
RECURSIVE reroute_loop(_, _, _, _, _, _, _, _, _)
reroute_loop(layout, pq, visited, current_node_id, destination_id, aircraft_class, is_arrival, blocked_edges, congested_edges) ==
    IF pq = {} THEN NoRoute
    ELSE
      LET top == heappop(pq)
          rest == pq \ {top}
      IN  IF top.node \in visited
          THEN reroute_loop(layout, rest, visited, current_node_id, destination_id,
                            aircraft_class, is_arrival, blocked_edges, congested_edges)
          ELSE IF top.node = destination_id
          THEN [edges |-> top.path, origin_node |-> current_node_id,
                destination_node |-> destination_id, total_length |-> top.dist]
          ELSE
            LET seen == visited \cup {top.node}
                next_id(e) == IF layout.edges[e].start_node = top.node
                              THEN layout.edges[e].end_node
                              ELSE layout.edges[e].start_node
                pushed == {[dist |-> top.dist + edge_cost(layout, e, congested_edges),
                            node |-> next_id(e),
                            path |-> Append(top.path, e)] :
                           e \in {x \in get_edges_from_node(layout, top.node) :
                                     /\ x \notin blocked_edges
                                     /\ next_id(x) \notin seen
                                     /\ can_access(layout.edges[x], aircraft_class,
                                                   is_arrival)}}
            IN  reroute_loop(layout, rest \cup pushed, seen, current_node_id,
                             destination_id, aircraft_class, is_arrival,
                             blocked_edges, congested_edges)

\* Router.reroute_if_needed: None (NoRoute) when the rest of the route is not
\* blocked, else the result of the search.
reroute_if_needed(layout, current_node_id, original_route, current_edge_idx, aircraft_class, is_arrival, blocked_edges, congested_edges) ==
    IF ~needs_reroute(original_route, current_edge_idx, blocked_edges) THEN NoRoute
    ELSE reroute_loop(layout, {[dist |-> 0, node |-> current_node_id, path |-> <<>>]},
                      {}, current_node_id, original_route.destination_node,
                      aircraft_class, is_arrival, blocked_edges, congested_edges)

\* Router.get_active_runway_ends: the runway ends whose name or id contains the
\* active direction, or all of them when none does.
get_active_runway_ends(layout, wind_direction) ==
    LET active == {n \in get_runway_ends(layout) :
                      layout.nodes[n].dir = get_active_runway_direction(wind_direction)}
    IN  IF active # {} THEN active ELSE get_runway_ends(layout)

\* ---------------------------------------------------------------- capacity
\* CapacityState.initialize_from_layout.  A runway record is keyed by the id of
\* its runway edge (RWY_<edge id>); RWY_MAIN (key 0) exists only without
\* runway edges.
initialize_from_layout(layout) ==
    [gates |-> [g \in get_gates(layout) |->
                   [size_class |-> layout.nodes[g].size_class,
                    state |-> "free", occupied_by |-> NoId]],
     holds |-> [h \in get_hold_points(layout) |-> <<>>],
     runways |-> [r \in (IF get_edges_by_type(layout, "runway") # {}
                         THEN get_edges_by_type(layout, "runway") ELSE {0}) |->
                     [state |-> "clear", current_aircraft |-> NoId]],
     edges |-> [e \in EdgeIds(layout) |->
                   [aircraft_ids |-> <<>>,
                    capacity |-> IF layout.edges[e].capacity_hint # 0
                                 THEN layout.edges[e].capacity_hint ELSE 10]]]

size_order(c) == IF c = "small" THEN 1 ELSE IF c = "large" THEN 3 ELSE 2

\* GateStatus.is_available that looks at the size class only.
gate_is_available_ignores_state(gate, aircraft_class) ==
    (gate.size_class # "none" /\ aircraft_class # "none")
        => size_order(aircraft_class) <= size_order(gate.size_class)

\* GateStatus.is_available
gate_is_available(gate, aircraft_class) ==
    /\ gate.state = "free"
    /\ (gate.size_class # "none" /\ aircraft_class # "none")
          => size_order(aircraft_class) <= size_order(gate.size_class)

get_available_gates(cap, aircraft_class) ==
    {g \in DOMAIN cap.gates : gate_is_available(cap.gates[g], aircraft_class)}

Min(S) == CHOOSE x \in S : \A y \in S : x <= y
Max(S) == CHOOSE x \in S : \A y \in S : x >= y

\* CapacityState.assign_gate without a gate_id: the first available gate (in
\* layout order) becomes occupied by aircraft_id.  Result: <<gate or NoId, cap>>.
assign_gate(cap, aircraft_id, aircraft_class) ==
    LET available == get_available_gates(cap, aircraft_class)
    IN  IF available = {} THEN <<NoId, cap>>
        ELSE <<Min(available),
               [cap EXCEPT !.gates[Min(available)].state = "occupied",
                           !.gates[Min(available)].occupied_by = aircraft_id]>>

\* release_gate that frees the gate and forgets to clear occupied_by.
release_gate_keeps_id(cap, gate_id) ==
    IF gate_id \in DOMAIN cap.gates
    THEN [cap EXCEPT !.gates[gate_id].state = "free"]
    ELSE cap

\* release_gate that releases nothing.
release_gate_nothing(cap, gate_id) == cap

release_gate(cap, gate_id) ==
    IF gate_id \in DOMAIN cap.gates
    THEN [cap EXCEPT !.gates[gate_id].state = "free",
                     !.gates[gate_id].occupied_by = NoId]
    ELSE cap

SeqToSet(s) == {s[i] : i \in DOMAIN s}
SeqRemove(s, x) == SelectSeq(s, LAMBDA y : y # x)

\* HoldQueue.add / remove / update_waiting_times.  A queue is the list of its
\* entries [id, waited]: `queue` and `waiting_times` of the source, whose keys
\* are always the queued ids.
queue_ids(cap, hold_id) == {cap.holds[hold_id][i].id : i \in DOMAIN cap.holds[hold_id]}

\* HoldQueue.add without the membership test.
hold_add_again(cap, hold_id, aircraft_id) ==
    [cap EXCEPT !.holds[hold_id] = Append(@, [id |-> aircraft_id, waited |-> 0])]

hold_add(cap, hold_id, aircraft_id) ==
    IF aircraft_id \in queue_ids(cap, hold_id) THEN cap
    ELSE [cap EXCEPT !.holds[hold_id] = Append(@, [id |-> aircraft_id, waited |-> 0])]

\* HoldQueue.remove that removes nothing.
hold_remove_nothing(cap, hold_id, aircraft_id) == cap

hold_remove(cap, hold_id, aircraft_id) ==
    [cap EXCEPT !.holds[hold_id] = SelectSeq(@, LAMBDA x : x.id # aircraft_id)]

update_waiting_times(cap, dt) ==
    [cap EXCEPT !.holds = [h \in DOMAIN cap.holds |->
        [i \in DOMAIN cap.holds[h] |->
            [cap.holds[h][i] EXCEPT !.waited = @ + dt]]]]

\* RunwayStatus.is_available / occupy / release
runway_is_available(runway) == runway.state = "clear"

occupy(runway, aircraft_id, is_arrival) ==
    [state |-> IF is_arrival THEN "occupied_arrival" ELSE "occupied_departure",
     current_aircraft |-> aircraft_id]

\* RunwayStatus.release that clears the state and keeps current_aircraft.
release_keeps_aircraft(runway) ==
    [state |-> "clear", current_aircraft |-> runway.current_aircraft]

release(runway) == [state |-> "clear", current_aircraft |-> NoId]

\* CapacityState.occupy_runway.  Result: <<returned value, capacity>>.
occupy_runway(cap, aircraft_id, runway_id, is_arrival) ==
    IF runway_id \in DOMAIN cap.runways /\ runway_is_available(cap.runways[runway_id])
    THEN <<TRUE, [cap EXCEPT !.runways[runway_id] = occupy(@, aircraft_id, is_arrival)]>>
    ELSE <<FALSE, cap>>

\* The loop  for runway in runways: if runway.current_aircraft == id: release()
release_runways_of(cap, aircraft_id) ==
    [cap EXCEPT !.runways = [r \in DOMAIN cap.runways |->
        IF cap.runways[r].current_aircraft = aircraft_id
        THEN release(cap.runways[r]) ELSE cap.runways[r]]]

\* EdgeOccupancy.add / remove / is_full through CapacityState
add_to_edge(cap, aircraft_id, edge_id) ==
    IF aircraft_id \in SeqToSet(cap.edges[edge_id].aircraft_ids) THEN cap
    ELSE [cap EXCEPT !.edges[edge_id].aircraft_ids = Append(@, aircraft_id)]

remove_from_edge(cap, aircraft_id, edge_id) ==
    IF edge_id \in DOMAIN cap.edges
    THEN [cap EXCEPT !.edges[edge_id].aircraft_ids = SeqRemove(@, aircraft_id)]
    ELSE cap

is_edge_full(cap, edge_id) ==
    /\ edge_id \in DOMAIN cap.edges
    /\ Len(cap.edges[edge_id].aircraft_ids) >= cap.edges[edge_id].capacity

\* ---------------------------------------------------------------- aircraft
\* spawning.Aircraft as created by the spawner; taxi_time is the attribute
\* finish_aircraft adds.
Aircraft(id, aircraft_class, is_arrival, route, status, gate_id, time) ==
    [id |-> id, aircraft_class |-> aircraft_class, is_arrival |-> is_arrival,
     route |-> route, current_edge_idx |-> 0, position_on_edge |-> 0, speed |-> 0,
     status |-> status, gate_id |-> gate_id, spawning_time |-> time,
     completion_time |-> NoTime, taxi_time |-> NoTime]

\* Aircraft.current_edge_id
current_edge_id(a) ==
    IF 0 <= a.current_edge_idx /\ a.current_edge_idx < Len(a.route.edges)
    THEN a.route.edges[a.current_edge_idx + 1]
    ELSE NoId

\* ----------------------------------------------------------------- spawner
\* The draws of one spawn attempt: u is rng.random() in percent, size_class the
\* sampled class, endpoint the rng.choice among the active runway ends; uuid is
\* the value of uuid4().hex[:6], which the run's seeded RNG does not produce.
\* Result: <<new aircraft (a list of at most one), capacity>>.
spawn_departures(layout, params, cap, cache, time, dt, draw, uuid) ==
    LET rate == get_spawn_rate(params, FALSE)
        expected_spawns == (rate * dt * 100) \div 60
        assigned == assign_gate(cap, PENDING, draw.size_class)
        gate_id == assigned[1]
        destinations == get_active_runway_ends(layout, params.wind_direction)
        route == get_route(layout, cache, gate_id, draw.endpoint, draw.size_class, FALSE)
    IN  IF rate <= 0 THEN <<<<>>, cap>>
        ELSE IF draw.u > expected_spawns THEN <<<<>>, cap>>
        ELSE IF gate_id = NoId THEN <<<<>>, cap>>
        ELSE IF destinations = {} THEN <<<<>>, release_gate(assigned[2], gate_id)>>
        ELSE IF route = NoRoute THEN <<<<>>, release_gate(assigned[2], gate_id)>>
        ELSE <<<<Aircraft(uuid, draw.size_class, FALSE, route, "taxiing_out",
                          gate_id, time)>>,
               [assigned[2] EXCEPT !.gates[gate_id].occupied_by = uuid]>>

\* spawn_arrivals that leaves the placeholder id on the gate it assigned.
spawn_arrivals_keeps_placeholder(layout, params, cap, cache, time, dt, draw, uuid) ==
    LET rate == get_spawn_rate(params, TRUE)
        expected_spawns == (rate * dt * 100) \div 60
        starts == get_active_runway_ends(layout, params.wind_direction)
        assigned == assign_gate(cap, PENDING, draw.size_class)
        gate_id == assigned[1]
        route == get_route(layout, cache, draw.endpoint, gate_id, draw.size_class, TRUE)
    IN  IF rate <= 0 THEN <<<<>>, cap>>
        ELSE IF draw.u > expected_spawns THEN <<<<>>, cap>>
        ELSE IF starts = {} THEN <<<<>>, cap>>
        ELSE IF gate_id = NoId THEN <<<<>>, cap>>
        ELSE IF route = NoRoute THEN <<<<>>, release_gate(assigned[2], gate_id)>>
        ELSE <<<<Aircraft(uuid, draw.size_class, TRUE, route, "landing",
                          gate_id, time)>>,
               assigned[2]>>

spawn_arrivals(layout, params, cap, cache, time, dt, draw, uuid) ==
    LET rate == get_spawn_rate(params, TRUE)
        expected_spawns == (rate * dt * 100) \div 60
        starts == get_active_runway_ends(layout, params.wind_direction)
        assigned == assign_gate(cap, PENDING, draw.size_class)
        gate_id == assigned[1]
        route == get_route(layout, cache, draw.endpoint, gate_id, draw.size_class, TRUE)
    IN  IF rate <= 0 THEN <<<<>>, cap>>
        ELSE IF draw.u > expected_spawns THEN <<<<>>, cap>>
        ELSE IF starts = {} THEN <<<<>>, cap>>
        ELSE IF gate_id = NoId THEN <<<<>>, cap>>
        ELSE IF route = NoRoute THEN <<<<>>, release_gate(assigned[2], gate_id)>>
        ELSE <<<<Aircraft(uuid, draw.size_class, TRUE, route, "landing",
                          gate_id, time)>>,
               [assigned[2] EXCEPT !.gates[gate_id].occupied_by = uuid]>>

\* A driver that does not register new aircraft on their first edge.
register_nowhere(cap, new_aircraft) == cap

\* runner.py 77-80 and 87-90: register the new aircraft on their first edge.
register_on_first_edge(cap, new_aircraft) ==
    IF new_aircraft # <<>> /\ new_aircraft[1].route.edges # <<>>
    THEN add_to_edge(cap, new_aircraft[1].id, new_aircraft[1].route.edges[1])
    ELSE cap

\* ---------------------------------------------------------- movement kernel
NoGap == -1

\* get_aircraft_ahead that looks at the aircraft's own edge only.
get_aircraft_ahead_same_edge(a, all_aircraft, layout) ==
    LET here == current_edge_id(a)
        same == {all_aircraft[i].position_on_edge - a.position_on_edge :
                    i \in {j \in DOMAIN all_aircraft :
                              /\ all_aircraft[j].id # a.id
                              /\ all_aircraft[j].status \notin Terminal
                              /\ current_edge_id(all_aircraft[j]) = here
                              /\ all_aircraft[j].position_on_edge > a.position_on_edge}}
    IN  IF same = {} THEN NoGap ELSE Min(same)

\* get_aircraft_ahead: the least gap to a non-terminal aircraft further along
\* the same edge or anywhere on the next route edge; NoGap when there is none.
get_aircraft_ahead(a, all_aircraft, layout) ==
    LET here == current_edge_id(a)
        has_next == a.current_edge_idx + 1 < Len(a.route.edges)
        next_edge_id == IF has_next THEN a.route.edges[a.current_edge_idx + 2] ELSE NoId
        others == {i \in DOMAIN all_aircraft :
                      /\ all_aircraft[i].id # a.id
                      /\ all_aircraft[i].status \notin Terminal}
        same == {all_aircraft[i].position_on_edge - a.position_on_edge :
                    i \in {j \in others :
                              /\ current_edge_id(all_aircraft[j]) = here
                              /\ all_aircraft[j].position_on_edge > a.position_on_edge}}
        ahead == {(layout.edges[here].length - a.position_on_edge)
                     + all_aircraft[i].position_on_edge :
                    i \in {j \in others :
                              /\ current_edge_id(all_aircraft[j]) # here
                              /\ has_next
                              /\ current_edge_id(all_aircraft[j]) = next_edge_id
                              /\ here \in EdgeIds(layout)}}
    IN  IF same \cup ahead = {} THEN NoGap ELSE Min(same \cup ahead)

\* is_at_hold_point: <<at hold, hold point id>>
is_at_hold_point(a, layout) ==
    LET edge_id == current_edge_id(a)
    IN  IF edge_id = NoId \/ edge_id \notin EdgeIds(layout) THEN <<FALSE, NoId>>
        ELSE IF /\ a.position_on_edge * 100 >= layout.edges[edge_id].length * 95
                /\ layout.nodes[layout.edges[edge_id].end_node].node_type = "hold_point"
        THEN <<TRUE, layout.edges[edge_id].end_node>>
        ELSE <<FALSE, NoId>>

\* A release test that asks for some clear runway record only.
can_proceed_some_runway_clear(a, layout, cap) ==
    LET next_idx == a.current_edge_idx + 1
        next_edge_id == a.route.edges[next_idx + 1]
    IN  IF next_idx >= Len(a.route.edges) THEN TRUE
        ELSE IF next_edge_id \notin EdgeIds(layout) THEN TRUE
        ELSE IF /\ layout.edges[next_edge_id].edge_type = "runway"
                /\ \A r \in DOMAIN cap.runways : ~runway_is_available(cap.runways[r])
        THEN FALSE
        ELSE ~is_edge_full(cap, next_edge_id)

can_proceed_from_hold(a, layout, cap) ==
    LET next_idx == a.current_edge_idx + 1
        next_edge_id == a.route.edges[next_idx + 1]
    IN  IF next_idx >= Len(a.route.edges) THEN TRUE
        ELSE IF next_edge_id \notin EdgeIds(layout) THEN TRUE
        ELSE IF /\ layout.edges[next_edge_id].edge_type = "runway"
                /\ \E r \in DOMAIN cap.runways : ~runway_is_available(cap.runways[r])
        THEN FALSE
        ELSE ~is_edge_full(cap, next_edge_id)

\* An entry into a runway that occupies every available record.
occupy_every_available(cap, a, layout) ==
    LET next_idx == a.current_edge_idx + 1
    IN  IF /\ next_idx < Len(a.route.edges)
           /\ a.route.edges[next_idx + 1] \in EdgeIds(layout)
           /\ layout.edges[a.route.edges[next_idx + 1]].edge_type = "runway"
        THEN [cap EXCEPT !.runways = [r \in DOMAIN cap.runways |->
                 IF runway_is_available(cap.runways[r])
                 THEN occupy(cap.runways[r], a.id, a.is_arrival)
                 ELSE cap.runways[r]]]
        ELSE cap

\* nasch_step 239-248: entering a runway occupies the first available record.
occupy_first_available(cap, a, layout) ==
    LET next_idx == a.current_edge_idx + 1
        free == {r \in DOMAIN cap.runways : runway_is_available(cap.runways[r])}
    IN  IF /\ next_idx < Len(a.route.edges)
           /\ a.route.edges[next_idx + 1] \in EdgeIds(layout)
           /\ layout.edges[a.route.edges[next_idx + 1]].edge_type = "runway"
           /\ free # {}
        THEN [cap EXCEPT !.runways[Min(free)] = occupy(@, a.id, a.is_arrival)]
        ELSE cap

\* An edge transition that starts the next edge at position 0 and leaves the
\* runway records alone.
edge_transition_from_zero(a, layout, cap, edge_id) ==
    LET next_idx == a.current_edge_idx + 1
        cap1 == remove_from_edge(cap, a.id, edge_id)
    IN  IF next_idx < Len(a.route.edges)
        THEN <<[a EXCEPT !.current_edge_idx = next_idx, !.position_on_edge = 0],
               add_to_edge(cap1, a.id, a.route.edges[next_idx + 1])>>
        ELSE <<[a EXCEPT !.current_edge_idx = next_idx], cap1>>

\* nasch_step 276-314: the aircraft has reached the end of its edge.
edge_transition(a, layout, cap, edge_id) ==
    LET edge == layout.edges[edge_id]
        remaining == a.position_on_edge - edge.length
        next_idx == a.current_edge_idx + 1
        cap1 == remove_from_edge(cap, a.id, edge_id)
        cap2 == IF edge.edge_type = "runway" THEN release_runways_of(cap1, a.id) ELSE cap1
        next_edge_id == a.route.edges[next_idx + 1]
        status == IF next_edge_id \notin EdgeIds(layout) THEN a.status
                  ELSE IF layout.edges[next_edge_id].edge_type = "runway"
                       THEN (IF a.is_arrival THEN "landing" ELSE "taking_off")
                  ELSE IF a.status = "taking_off" THEN "taxiing_out"
                  ELSE IF a.status = "landing" THEN "taxiing_in"
                  ELSE a.status
    IN  IF next_idx < Len(a.route.edges)
        THEN <<[a EXCEPT !.current_edge_idx = next_idx,
                         !.position_on_edge = IF remaining > 0 THEN remaining ELSE 0,
                         !.status = status],
               add_to_edge(cap2, a.id, next_edge_id)>>
        ELSE <<[a EXCEPT !.current_edge_idx = next_idx], cap2>>

\* The NaSch rules without the two max(0, ...) clamps of the braking rule.
nasch_rules_unclamped(a, all_aircraft, layout, vmax, dt, brake) ==
    LET accel == DEFAULT_ACCELERATION * dt * dt
        advance(v) == [a EXCEPT !.speed = v, !.position_on_edge = @ + v]
        random_brake(v) == advance(IF v > 0 /\ brake THEN v - accel ELSE v)
        gap_brake(v, gap) ==
            random_brake(IF gap # NoGap THEN Min({v, Max({gap - SAFETY_BUFFER, 0})}) ELSE v)
    IN  gap_brake(Min({a.speed + accel, vmax}), get_aircraft_ahead(a, all_aircraft, layout))

\* nasch_step 253-273: accelerate, gap brake, random brake, advance.  Speeds
\* are metres per tick (see Units), so the acceleration term is a * dt * dt.
nasch_rules(a, all_aircraft, layout, vmax, dt, brake) ==
    LET accel == DEFAULT_ACCELERATION * dt * dt
        advance(v) == [a EXCEPT !.speed = v, !.position_on_edge = @ + v]
        random_brake(v) ==
            advance(Max({IF v > 0 /\ brake THEN Max({v - accel, 0}) ELSE v, 0}))
        gap_brake(v, gap) ==
            random_brake(IF gap # NoGap THEN Min({v, Max({gap - SAFETY_BUFFER, 0})}) ELSE v)
    IN  gap_brake(Min({a.speed + accel, vmax}), get_aircraft_ahead(a, all_aircraft, layout))

\* nasch_step for one aircraft; all_aircraft is the sorted list with the
\* updates of the aircraft already processed in this tick.  Result:
\* <<aircraft, capacity>>.
nasch_step(a, all_aircraft, layout, params, cap, dt, brake) ==
    LET edge_id == current_edge_id(a)
        vmax == get_speed_limit(layout.edges[edge_id], a.aircraft_class, params)
        hold == is_at_hold_point(a, layout)
        blocked == hold[1] /\ hold[2] # NoId /\ ~can_proceed_from_hold(a, layout, cap)
        leave_queue(occ) == IF hold[2] \in DOMAIN occ.holds
                            THEN hold_remove(occ, hold[2], a.id) ELSE occ
        cap1 == IF hold[1] /\ hold[2] # NoId
                THEN leave_queue(occupy_first_available(cap, a, layout))
                ELSE cap
        advance(moved, c) == IF moved.position_on_edge >= layout.edges[edge_id].length
                             THEN edge_transition(moved, layout, c, edge_id)
                             ELSE <<moved, c>>
    IN  IF a.status \in Terminal THEN <<a, cap>>
        ELSE IF a.current_edge_idx >= Len(a.route.edges) THEN <<a, cap>>
        ELSE IF edge_id \notin EdgeIds(layout) THEN <<a, cap>>
        ELSE IF blocked
        THEN <<[a EXCEPT !.speed = 0],
               IF hold[2] \in DOMAIN cap.holds THEN hold_add(cap, hold[2], a.id) ELSE cap>>
        ELSE advance(nasch_rules(a, all_aircraft, layout, vmax, dt, brake), cap1)

\* finish_aircraft that releases the gate of an arrival too.
finish_aircraft_frees_every_gate(a, time, cap) ==
    LET done == [a EXCEPT !.completion_time = time, !.speed = 0,
                          !.taxi_time = IF @ = NoTime THEN time - a.spawning_time ELSE @,
                          !.status = IF a.is_arrival THEN "parked" ELSE "departed"]
        cap1 == IF a.gate_id # NoId THEN release_gate(cap, a.gate_id) ELSE cap
        cap2 == release_runways_of(cap1, a.id)
    IN  <<done,
          IF current_edge_id(done) # NoId
          THEN remove_from_edge(cap2, a.id, current_edge_id(done)) ELSE cap2>>

\* finish_aircraft that never releases the gate.
finish_aircraft_keeps_gate(a, time, cap) ==
    LET done == [a EXCEPT !.completion_time = time, !.speed = 0,
                          !.taxi_time = IF @ = NoTime THEN time - a.spawning_time ELSE @,
                          !.status = IF a.is_arrival THEN "parked" ELSE "departed"]
        cap2 == release_runways_of(cap, a.id)
    IN  <<done,
          IF current_edge_id(done) # NoId
          THEN remove_from_edge(cap2, a.id, current_edge_id(done)) ELSE cap2>>

\* finish_aircraft.  Result: <<aircraft, capacity>>.
finish_aircraft(a, time, cap) ==
    LET done == [a EXCEPT !.completion_time = time, !.speed = 0,
                          !.taxi_time = IF @ = NoTime THEN time - a.spawning_time ELSE @,
                          !.status = IF a.is_arrival THEN "parked" ELSE "departed"]
        cap1 == IF ~a.is_arrival /\ a.gate_id # NoId
                THEN release_gate(cap, a.gate_id) ELSE cap
        cap2 == release_runways_of(cap1, a.id)
    IN  <<done,
          IF current_edge_id(done) # NoId
          THEN remove_from_edge(cap2, a.id, current_edge_id(done)) ELSE cap2>>

\* -------------------------------------------------------------------- step
\* sorted(state.aircraft, key=(current_edge_idx, position_on_edge),
\* reverse=True): a stable sort, equal keys keep their list order.
KeyLess(a, b) ==
    \/ a.current_edge_idx < b.current_edge_idx
    \/ /\ a.current_edge_idx = b.current_edge_idx
       /\ a.position_on_edge < b.position_on_edge

RECURSIVE sorted_aircraft(_)
sorted_aircraft(s) ==
    IF s = <<>> THEN <<>>
    ELSE LET init == sorted_aircraft(SubSeq(s, 1, Len(s) - 1))
             last == s[Len(s)]
             before == Cardinality({i \in DOMAIN init : ~KeyLess(init[i], last)})
         IN  SubSeq(init, 1, before) \o <<last>> \o SubSeq(init, before + 1, Len(init))

\* An eviction test that also evicts at exactly the grace time.
is_evicted_at_grace(a, new_time) ==
    /\ a.completion_time # NoTime /\ a.completion_time # 0
    /\ new_time - a.completion_time >= EVICTION_GRACE

\* step 396-401: a finished aircraft with a (truthy) completion_time leaves
\* the active list once more than 60 s have passed since its completion.
is_evicted(a, new_time) ==
    /\ a.completion_time # NoTime /\ a.completion_time # 0
    /\ new_time - a.completion_time > EVICTION_GRACE

\* A loop body that reports a finished aircraft again in every tick in which
\* it is still listed.
step_one_reports_again(acc, i, layout, params, new_time, dt, brakes) ==
    LET a == acc.all[i]
        store(r) == [acc EXCEPT !.all[i] = r[1], !.cap = r[2],
                                !.newly = IF r[1].status \in Terminal
                                          THEN Append(@, a.id) ELSE @,
                                !.kept = @ \cup {i}]
        finish_if_done(r) == IF r[1].current_edge_idx >= Len(r[1].route.edges)
                             THEN finish_aircraft(r[1], new_time, r[2]) ELSE r
    IN  IF a.status \in Terminal
        THEN IF is_evicted(a, new_time)
             THEN [acc EXCEPT !.evicted = Append(@, a.id)]
             ELSE [acc EXCEPT !.kept = @ \cup {i}, !.newly = Append(@, a.id)]
        ELSE store(finish_if_done(
                 IF a.current_edge_idx >= Len(a.route.edges) THEN <<a, acc.cap>>
                 ELSE nasch_step(a, acc.all, layout, params, acc.cap, dt, i \in brakes)))

\* The body of the for-loop of step (394-420) for the aircraft at place i of
\* the sorted list.  acc.all is the sorted list with the updates made so far,
\* acc.kept the places that stay active, acc.newly the ids completed in this
\* tick, acc.evicted the ids moved to completed_aircraft.
step_one(acc, i, layout, params, new_time, dt, brakes) ==
    LET a == acc.all[i]
        store(r) == [acc EXCEPT !.all[i] = r[1], !.cap = r[2],
                                !.newly = IF r[1].status \in Terminal
                                          THEN Append(@, a.id) ELSE @,
                                !.kept = @ \cup {i}]
        finish_if_done(r) == IF r[1].current_edge_idx >= Len(r[1].route.edges)
                             THEN finish_aircraft(r[1], new_time, r[2]) ELSE r
    IN  IF a.status \in Terminal
        THEN IF is_evicted(a, new_time)
             THEN [acc EXCEPT !.evicted = Append(@, a.id)]
             ELSE [acc EXCEPT !.kept = @ \cup {i}]
        ELSE store(finish_if_done(
                 IF a.current_edge_idx >= Len(a.route.edges) THEN <<a, acc.cap>>
                 ELSE nasch_step(a, acc.all, layout, params, acc.cap, dt, i \in brakes)))

\* The record of one round of the loop: the aircraft and the capacity state
\* before and after it, and the list the round read.
log_update(before, after, i) ==
    [after EXCEPT !.trace = Append(@, [pre |-> before.all[i], post |-> after.all[i],
                                       all |-> before.all,
                                       cap_pre |-> before.cap,
                                       cap_post |-> after.cap])]

RECURSIVE step_loop(_, _, _, _, _, _, _)
step_loop(acc, i, layout, params, new_time, dt, brakes) ==
    IF i > Len(acc.all) THEN acc
    ELSE step_loop(log_update(acc, step_one(acc, i, layout, params, new_time, dt,
                                            brakes), i),
                   i + 1, layout, params, new_time, dt, brakes)

SumOver(f) ==
    LET RECURSIVE Sum(_)
        Sum(T) == IF T = {} THEN 0
                  ELSE LET x == CHOOSE y \in T : TRUE IN f[x] + Sum(T \ {x})
    IN  Sum(DOMAIN f)

\* model_core.step.  brakes: the places of the sorted list whose braking draw
\* rng.random() < DEFAULT_P_SLOW succeeds.  Result: the new aircraft list, time,
\* capacity, completed_aircraft and the observables.
step(state, layout, params, cap, dt, brakes) ==
    LET new_time == state.time + dt
        cap0 == update_waiting_times(cap, dt)
        after_loop(acc) ==
            LET active_aircraft == SelectSeq([i \in DOMAIN acc.all |-> [ix |-> i, ac |-> acc.all[i]]],
                                             LAMBDA x : x.ix \in acc.kept)
                active == [i \in DOMAIN active_aircraft |-> active_aircraft[i].ac]
                non_finished == {i \in DOMAIN active : active[i].status \notin Terminal}
                queue_len(h) == Len(acc.cap.holds[h])
            IN  [aircraft |-> active,
                 time |-> new_time,
                 cap |-> acc.cap,
                 completed_aircraft |-> state.completed_aircraft \o acc.evicted,
                 phases |-> <<"advance_waiting", "move">>,
                 trace |-> acc.trace,
                 observables |->
                    [time |-> new_time,
                     aircraft_count |-> Cardinality(non_finished),
                     total_aircraft |-> Len(active),
                     departures_count |-> Cardinality({i \in non_finished : ~active[i].is_arrival}),
                     arrivals_count |-> Cardinality({i \in non_finished : active[i].is_arrival}),
                     queue_length |-> SumOver([h \in DOMAIN acc.cap.holds |-> queue_len(h)]),
                     max_queue_length |-> IF DOMAIN acc.cap.holds = {} THEN 0
                                          ELSE Max({queue_len(h) : h \in DOMAIN acc.cap.holds}),
                     runways_occupied |-> Cardinality({r \in DOMAIN acc.cap.runways :
                                              ~runway_is_available(acc.cap.runways[r])}),
                     newly_completed |-> Len(acc.newly),
                     completed_aircraft |-> [i \in DOMAIN acc.newly |->
                         LET a == CHOOSE x \in SeqToSet(acc.all) : x.id = acc.newly[i]
                         IN  [id |-> a.id, is_arrival |-> a.is_arrival,
                              aircraft_class |-> a.aircraft_class, gate |-> a.gate_id,
                              spawning_time |-> a.spawning_time,
                              completion_time |-> a.completion_time,
                              taxi_time |-> a.taxi_time]]]]
    IN  after_loop(step_loop([all |-> sorted_aircraft(state.aircraft), cap |-> cap0,
                              kept |-> {}, newly |-> <<>>, evicted |-> <<>>,
                              trace |-> <<>>],
                             1, layout, params, new_time, dt, brakes))

\* ----------------------------------------------------------------- metrics
\* MetricsCollector.record: one point per series per call, all with the same
\* time stamp (kept once, in `times`), and one flight record per completed
\* aircraft whose completion_time is set.
record(metrics, time, observables) ==
    [times |-> Append(metrics.times, time),
     completed_flights |-> metrics.completed_flights \o
        SelectSeq([i \in DOMAIN observables.completed_aircraft |->
                      [id |-> observables.completed_aircraft[i].id,
                       type |-> IF observables.completed_aircraft[i].is_arrival
                                THEN "arrival" ELSE "departure",
                       class |-> observables.completed_aircraft[i].aircraft_class,
                       duration |-> observables.completed_aircraft[i].completion_time
                                    - observables.completed_aircraft[i].spawning_time,
                       gate |-> observables.completed_aircraft[i].gate,
                       spawning_time |-> observables.completed_aircraft[i].spawning_time,
                       completion_time |-> observables.completed_aircraft[i].completion_time,
                       taxi_time |-> observables.completed_aircraft[i].taxi_time]],
                  LAMBDA f : f.completion_time # NoTime)]

\* ------------------------------------------------------------------ driver
VARIABLES
    scenario,            \* which layout and parameter bundle the run was given
    cache,               \* router.cache.routes
    aircraft,            \* state.aircraft
    time,                \* state.time
    completed_aircraft,  \* state.completed_aircraft (ids of the evicted aircraft)
    metrics_snapshot,    \* state.metrics_snapshot: the observables of the last tick
    gates, holds, runways, edges,   \* capacity_state
    metrics,             \* metrics_collector: time stamps and completed flights
    step_idx,            \* number of loop iterations executed
    n_spawned,           \* number of aircraft created so far
    n_brakes,            \* number of braking draws below p_slow so far
    pc,                  \* "running" inside the loop, "done" after the return
    result,              \* the returned JSON: its error and details, NoResult before
    phases,              \* the sub-phases of the last tick, in execution order
    trace,               \* the rounds of the kernel's loop in the last tick
    twin,                \* a second run fed the same seeded draws (PairSpec only)
    session,             \* a parameter object under mid-run updates (UpdateSpec only)
    last_update,         \* the update handed to the last apply_midrun_update
    query,               \* the arguments of a call to the router (RouteSpec only)
    answer               \* what that call returned

vars == <<scenario, cache, aircraft, time, completed_aircraft, metrics_snapshot,
          gates, holds, runways, edges, metrics, step_idx, n_spawned, n_brakes,
          pc, result, phases, trace, twin, session, last_update, query, answer>>

Capacity == [gates |-> gates, holds |-> holds, runways |-> runways, edges |-> edges]

World == [aircraft |-> aircraft, time |-> time, cap |-> Capacity,
          completed_aircraft |-> completed_aircraft,
          metrics_snapshot |-> metrics_snapshot, metrics |-> metrics,
          step_idx |-> step_idx, n_spawned |-> n_spawned, entropy |-> 0,
          phases |-> <<>>, trace |-> <<>>]

EmptySnapshot ==
    [time |-> NoTime, aircraft_count |-> 0, total_aircraft |-> 0,
     departures_count |-> 0, arrivals_count |-> 0, queue_length |-> 0,
     max_queue_length |-> 0, runways_occupied |-> 0, newly_completed |-> 0,
     completed_aircraft |-> <<>>]

\* run_simulation 47-59: capacity from the layout, empty state, empty metrics.
InitialWorld(layout, entropy) ==
    [aircraft |-> <<>>, time |-> 0, cap |-> initialize_from_layout(layout),
     completed_aircraft |-> <<>>, metrics_snapshot |-> EmptySnapshot,
     metrics |-> [times |-> <<>>, completed_flights |-> <<>>],
     step_idx |-> 0, n_spawned |-> 0, entropy |-> entropy, phases |-> <<>>,
     trace |-> <<>>]

\* A loop bound that is one too high.
total_steps_one_more(params) == params.total_duration \div params.time_step_size + 1

\* run_simulation 63: total_steps = int(total_duration / dt)
total_steps(params) == params.total_duration \div params.time_step_size

\* uuid4().hex[:6] for the k-th aircraft of a run.  The value comes from the
\* operating system's entropy, not from the seeded RNG: `entropy` stands for
\* that source, fixed per run, and two runs may differ in it.  Ids of one run
\* are pairwise different.  Ids are only compared for equality, so the run
\* under study uses entropy 0 and only the twin run of PairSpec varies it.
UuidEntropy == {0, 1}
uuid4(k, entropy) == 2 * k - entropy

\* The draws of one spawn attempt.  NoDraw is a u above the spawn probability;
\* once MaxAircraft aircraft exist only NoDraw is drawn.
NoDraw == [u |-> 99, size_class |-> "medium", endpoint |-> NoId]

SpawnDraws(layout, params, is_arrival, n) ==
    {NoDraw} \cup
    (IF n < MaxAircraft /\ get_spawn_rate(params, is_arrival) > 0
     THEN {[u |-> 50, size_class |-> c, endpoint |-> e] :
              c \in (IF is_arrival THEN params.arrival_class_mix
                     ELSE params.departure_class_mix),
              e \in get_active_runway_ends(layout, params.wind_direction)}
     ELSE {})

\* run_simulation 65-98, one iteration: spawn departures and register them,
\* spawn arrivals and register them, step the kernel, record the observables
\* under the time read before the step.
AfterDepartures(w, layout, params, cch, d) ==
    LET extend(dep) == [w EXCEPT !.aircraft = @ \o dep[1],
                                 !.cap = register_on_first_edge(dep[2], dep[1]),
                                 !.n_spawned = @ + Len(dep[1]),
                                 !.phases = Append(@, "spawn_departures")]
    IN  extend(spawn_departures(layout, params, w.cap, cch, w.time,
                                params.time_step_size, d,
                                uuid4(w.n_spawned + 1, w.entropy)))

AfterArrivals(w, layout, params, cch, d) ==
    LET extend(arr) == [w EXCEPT !.aircraft = @ \o arr[1],
                                 !.cap = register_on_first_edge(arr[2], arr[1]),
                                 !.n_spawned = @ + Len(arr[1]),
                                 !.phases = Append(@, "spawn_arrivals")]
    IN  extend(spawn_arrivals(layout, params, w.cap, cch, w.time,
                              params.time_step_size, d,
                              uuid4(w.n_spawned + 1, w.entropy)))

AfterStep(w, current_time, layout, params, brakes) ==
    LET collect(st) ==
            [aircraft |-> st.aircraft, time |-> st.time, cap |-> st.cap,
             completed_aircraft |-> st.completed_aircraft,
             metrics_snapshot |-> st.observables,
             metrics |-> record(w.metrics, current_time, st.observables),
             step_idx |-> w.step_idx + 1, n_spawned |-> w.n_spawned,
             entropy |-> w.entropy,
             phases |-> w.phases \o st.phases \o <<"record">>,
             trace |-> st.trace]
    IN  collect(step(w, layout, params, w.cap, params.time_step_size, brakes))

\* The places of the sorted list that can draw a braking number.
BrakePlaces(w) ==
    {i \in DOMAIN w.aircraft : sorted_aircraft(w.aircraft)[i].status \notin Terminal}

RunTick(w, layout, params, cch, dep_draw, arr_draw, brakes) ==
    AfterStep(AfterArrivals(AfterDepartures([w EXCEPT !.phases = <<>>],
                                            layout, params, cch, dep_draw),
                            layout, params, cch, arr_draw),
              w.time, layout, params, brakes)

SetWorld(w) ==
    /\ aircraft' = w.aircraft
    /\ time' = w.time
    /\ gates' = w.cap.gates
    /\ holds' = w.cap.holds
    /\ runways' = w.cap.runways
    /\ edges' = w.cap.edges
    /\ completed_aircraft' = w.completed_aircraft
    /\ metrics_snapshot' = w.metrics_snapshot
    /\ metrics' = w.metrics
    /\ step_idx' = w.step_idx
    /\ n_spawned' = w.n_spawned
    /\ phases' = w.phases
    /\ trace' = w.trace

NoResult == [error |-> "pending", details |-> <<>>]

\* run_simulation 34-45 and 103-109: the error the call returns before its
\* loop.  The layout is parsed, then the parameters (an exception of from_dict
\* is caught and returned with its traceback), then the layout is validated.
load_error(sc) ==
    IF from_dict_raises(Params(sc))
    THEN [error |-> "ValueError", details |-> <<>>]
    ELSE IF validate(LayoutOf(sc)) # <<>>
    THEN [error |-> "Layout validation failed", details |-> validate(LayoutOf(sc))]
    ELSE NoResult

\* The world of a call that has returned before initialising anything.
NothingBuilt ==
    [aircraft |-> <<>>, time |-> 0,
     cap |-> [gates |-> <<>>, holds |-> <<>>, runways |-> <<>>, edges |-> <<>>],
     completed_aircraft |-> <<>>, metrics_snapshot |-> EmptySnapshot,
     metrics |-> [times |-> <<>>, completed_flights |-> <<>>],
     step_idx |-> 0, n_spawned |-> 0, entropy |-> 0, phases |-> <<>>,
     trace |-> <<>>]

\* run_simulation asks the router through the spawner only: no call is pending.
NoQuery == [op |-> "none", origin |-> NoId, destination |-> NoId,
            aircraft_class |-> "none", is_arrival |-> FALSE,
            current_node |-> NoId, original |-> NoRoute, idx |-> 0,
            blocked |-> {}, congested |-> {}]

\* run_simulation applies no mid-run update: there is no object under update.
NoSession == [params |-> <<>>, rng |-> SeededRng(0), error |-> "none", calls |-> 0]

\* The state after construction of everything but the twin run.
InitRun ==
    /\ scenario \in Scenarios
    /\ load_error(scenario) = NoResult
    /\ result = NoResult
    /\ phases = <<>>
    /\ trace = <<>>
    /\ cache = precompute_routes(LayoutOf(scenario))
    /\ aircraft = <<>>
    /\ time = 0
    /\ completed_aircraft = <<>>
    /\ metrics_snapshot = EmptySnapshot
    /\ gates = initialize_from_layout(LayoutOf(scenario)).gates
    /\ holds = initialize_from_layout(LayoutOf(scenario)).holds
    /\ runways = initialize_from_layout(LayoutOf(scenario)).runways
    /\ edges = initialize_from_layout(LayoutOf(scenario)).edges
    /\ metrics = [times |-> <<>>, completed_flights |-> <<>>]
    /\ step_idx = 0
    /\ n_spawned = 0
    /\ n_brakes = 0
    /\ pc = "running"
    /\ session = NoSession
    /\ last_update = <<>>
    /\ query = NoQuery
    /\ answer = NoRoute

\* The state after a call that returned an error before its loop.
InitRejected ==
    /\ scenario \in Scenarios
    /\ load_error(scenario) # NoResult
    /\ result = load_error(scenario)
    /\ phases = <<>>
    /\ trace = <<>>
    /\ cache = EmptyCache
    /\ aircraft = NothingBuilt.aircraft
    /\ time = NothingBuilt.time
    /\ completed_aircraft = NothingBuilt.completed_aircraft
    /\ metrics_snapshot = NothingBuilt.metrics_snapshot
    /\ gates = NothingBuilt.cap.gates
    /\ holds = NothingBuilt.cap.holds
    /\ runways = NothingBuilt.cap.runways
    /\ edges = NothingBuilt.cap.edges
    /\ metrics = NothingBuilt.metrics
    /\ step_idx = 0
    /\ n_spawned = 0
    /\ n_brakes = 0
    /\ pc = "done"
    /\ twin = NothingBuilt
    /\ session = NoSession
    /\ last_update = <<>>
    /\ query = NoQuery
    /\ answer = NoRoute

Init ==
    \/ /\ InitRun
       /\ twin = InitialWorld(LayoutOf(scenario), 0)
    \/ InitRejected

\* One iteration of the main loop of run_simulation.
Tick ==
    /\ pc = "running"
    /\ step_idx < total_steps(Params(scenario))
    /\ \E dep_draw \in SpawnDraws(LayoutOf(scenario), Params(scenario), FALSE, n_spawned) :
         LET w1 == AfterDepartures(World, LayoutOf(scenario), Params(scenario), cache,
                                   dep_draw)
         IN  \E arr_draw \in SpawnDraws(LayoutOf(scenario), Params(scenario), TRUE,
                                        w1.n_spawned) :
               LET w2 == AfterArrivals(w1, LayoutOf(scenario), Params(scenario), cache,
                                       arr_draw)
               IN  \E brakes \in SUBSET BrakePlaces(w2) :
                     /\ n_brakes + Cardinality(brakes) <= MaxBrakes
                     /\ n_brakes' = n_brakes + Cardinality(brakes)
                     /\ SetWorld(AfterStep(w2, time, LayoutOf(scenario),
                                           Params(scenario), brakes))
    /\ UNCHANGED <<scenario, cache, pc, result, twin, session, last_update,
                   query, answer>>

\* run_simulation 100-101: the loop is over, the results are returned.
Finish ==
    /\ pc = "running"
    /\ step_idx >= total_steps(Params(scenario))
    /\ pc' = "done"
    /\ result' = [error |-> "none", details |-> <<>>]
    /\ UNCHANGED <<phases, trace, scenario, cache, aircraft, time, completed_aircraft,
                   metrics_snapshot, gates, holds, runways, edges, metrics,
                   step_idx, n_spawned, n_brakes, twin, session, last_update,
                   query, answer>>

Next == Tick \/ Finish

Spec == Init /\ [][Next]_vars

\* ------------------------------------------------------ two runs, one seed
\* A second call of run_simulation with the same layout, parameters and
\* random_seed: its seeded RNG yields the same spawn and braking draws as the
\* first run's, its uuid4 values come from its own entropy.
PairInit ==
    \/ /\ InitRun
       /\ \E e \in UuidEntropy : twin = InitialWorld(LayoutOf(scenario), e)
    \/ InitRejected

TickPair ==
    /\ pc = "running"
    /\ step_idx < total_steps(Params(scenario))
    /\ \E dep_draw \in SpawnDraws(LayoutOf(scenario), Params(scenario), FALSE, n_spawned) :
         LET w1 == AfterDepartures(World, LayoutOf(scenario), Params(scenario), cache,
                                   dep_draw)
         IN  \E arr_draw \in SpawnDraws(LayoutOf(scenario), Params(scenario), TRUE,
                                        w1.n_spawned) :
               LET w2 == AfterArrivals(w1, LayoutOf(scenario), Params(scenario), cache,
                                       arr_draw)
               IN  \E brakes \in SUBSET BrakePlaces(w2) :
                     /\ n_brakes + Cardinality(brakes) <= MaxBrakes
                     /\ n_brakes' = n_brakes + Cardinality(brakes)
                     /\ SetWorld(AfterStep(w2, time, LayoutOf(scenario),
                                           Params(scenario), brakes))
                     /\ twin' = RunTick(twin, LayoutOf(scenario), Params(scenario),
                                        cache, dep_draw, arr_draw, brakes)
    /\ UNCHANGED <<scenario, cache, pc, result, session, last_update,
                   query, answer>>

PairNext == TickPair \/ Finish

PairSpec == PairInit /\ [][PairNext]_vars

\* ------------------------------------------------- mid-run updates
\* A parameter object built from a valid parameter file and then handed
\* mid-run updates, between draws from its generator.
MaxDraws == 2
MaxKeys == 2
MaxUpdates == 2

\* Items of an update: every safe key with a new value, a spawn rate also as a
\* dict with a known mode, with an unknown mode and without a mode, a priority
\* mode that is no member, and keys outside safe_params.
UpdateItems ==
    <<[key |-> "departure_spawn_rate", is_dict |-> FALSE, value |-> 2],
     [key |-> "departure_spawn_rate", is_dict |-> TRUE,
      value |-> [mode |-> "off", value |-> 0]],
     [key |-> "departure_spawn_rate", is_dict |-> TRUE,
      value |-> [mode |-> "bogus", value |-> 1]],
     [key |-> "arrival_spawn_rate", is_dict |-> TRUE, value |-> [value |-> 3]],
     [key |-> "weather_condition", is_dict |-> FALSE, value |-> "bad"],
     [key |-> "wind_speed", is_dict |-> FALSE, value |-> 5],
     [key |-> "wind_direction", is_dict |-> FALSE, value |-> 90],
     [key |-> "runway_priority_mode", is_dict |-> FALSE, value |-> "depart_first"],
     [key |-> "runway_priority_mode", is_dict |-> FALSE, value |-> "bogus"],
     [key |-> "intersection_priority_mode", is_dict |-> FALSE, value |-> "weighted"],
     [key |-> "hold_release_priority", is_dict |-> FALSE, value |-> "size_priority"],
     [key |-> "random_seed", is_dict |-> FALSE, value |-> 7],
     [key |-> "time_step_size", is_dict |-> FALSE, value |-> 1],
     [key |-> "traffic_mode", is_dict |-> FALSE, value |-> "arrivals_only"],
     [key |-> "speed_base", is_dict |-> TRUE,
      value |-> [small |-> 1, medium |-> 1, large |-> 1]]>>

\* The updates: dicts of one to MaxKeys items, in insertion order, each
\* item named by its place in UpdateItems.
RECURSIVE UpdatesOfLen(_)
UpdatesOfLen(n) ==
    IF n = 0 THEN {<<>>}
    ELSE {Append(u, it) : u \in UpdatesOfLen(n - 1), it \in DOMAIN UpdateItems}

DistinctKeys(u) ==
    \A i, j \in DOMAIN u : i # j => UpdateItems[u[i]].key # UpdateItems[u[j]].key

Updates == {u \in UNION {UpdatesOfLen(n) : n \in 1..MaxKeys} : DistinctKeys(u)}

ItemsOf(u) == [i \in DOMAIN u |-> UpdateItems[u[i]]]

UpdateInit ==
    /\ scenario = "airfield"
    /\ session = [params |-> ParamsObject(scenario),
                  rng |-> SeededRng(Params(scenario).random_seed),
                  error |-> "none", calls |-> 0]
    /\ last_update = <<>>
    /\ query = NoQuery
    /\ answer = NoRoute
    /\ result = NoResult
    /\ phases = <<>>
    /\ trace = <<>>
    /\ cache = EmptyCache
    /\ aircraft = NothingBuilt.aircraft
    /\ time = NothingBuilt.time
    /\ completed_aircraft = NothingBuilt.completed_aircraft
    /\ metrics_snapshot = NothingBuilt.metrics_snapshot
    /\ gates = NothingBuilt.cap.gates
    /\ holds = NothingBuilt.cap.holds
    /\ runways = NothingBuilt.cap.runways
    /\ edges = NothingBuilt.cap.edges
    /\ metrics = NothingBuilt.metrics
    /\ step_idx = 0
    /\ n_spawned = 0
    /\ n_brakes = 0
    /\ pc = "session"
    /\ twin = NothingBuilt

SessionFrame ==
    UNCHANGED <<scenario, cache, aircraft, time, completed_aircraft,
                metrics_snapshot, gates, holds, runways, edges, metrics,
                step_idx, n_spawned, n_brakes, pc, result, phases, trace, twin,
                query, answer>>

\* A call of apply_midrun_update, one of MaxUpdates.
MidrunUpdate ==
    /\ pc = "session"
    /\ session.calls < MaxUpdates
    /\ \E u \in Updates :
          /\ session' = [apply_midrun_update(session, ItemsOf(u))
                            EXCEPT !.calls = @ + 1]
          /\ last_update' = u
    /\ SessionFrame

\* sample_aircraft_class: one draw from the object's generator.
Sample ==
    /\ pc = "session"
    /\ session.rng.draws < MaxDraws
    /\ session' = [session EXCEPT !.rng.draws = @ + 1]
    /\ UNCHANGED last_update
    /\ SessionFrame

UpdateNext == MidrunUpdate \/ Sample

UpdateSpec == UpdateInit /\ [][UpdateNext]_vars

\* ------------------------------------------------------- router calls
\* A router built on a valid layout and asked for a route, or asked to
\* replace one: the arguments are drawn, the action computes the answer.
MaxBlocked == 2
MaxCongested == 1

RoutingScenarios == {"airfield", "restricted", "diamond"}

\* A node id that no layout has.
UnknownNode == 99

SubsetsUpTo(S, n) == {x \in SUBSET S : Cardinality(x) <= n}

FindQueries(layout) ==
    {[NoQuery EXCEPT !.op = "find_route", !.origin = o, !.destination = d,
                     !.aircraft_class = c, !.is_arrival = arr] :
        o \in NodeIds(layout) \cup {UnknownNode},
        d \in NodeIds(layout) \cup {UnknownNode},
        c \in Classes, arr \in BOOLEAN}

\* The routes the spawner hands out: the values of the precomputed cache.
\* An aircraft on such a route may be anywhere on it and at any node.
RerouteQueries(layout) ==
    LET routes == precompute_routes(layout)
    IN  UNION {{[NoQuery EXCEPT !.op = "reroute_if_needed", !.aircraft_class = k[3],
                                !.is_arrival = k[4], !.current_node = n,
                                !.original = routes[k], !.idx = i,
                                !.blocked = b, !.congested = c] :
                   n \in NodeIds(layout),
                   i \in 0..Len(routes[k].edges),
                   b \in SubsetsUpTo(EdgeIds(layout), MaxBlocked),
                   c \in SubsetsUpTo(EdgeIds(layout), MaxCongested)} :
               k \in {x \in DOMAIN routes : x[3] = "medium"}}

RouteInit ==
    /\ scenario \in RoutingScenarios
    /\ cache \in {EmptyCache, precompute_routes(LayoutOf(scenario))}
    /\ query \in FindQueries(LayoutOf(scenario))
                 \cup (IF scenario = "diamond" /\ cache # EmptyCache
                       THEN RerouteQueries(LayoutOf(scenario)) ELSE {})
    /\ answer = NoRoute
    /\ pc = "asked"
    /\ session = NoSession
    /\ last_update = <<>>
    /\ result = NoResult
    /\ phases = <<>>
    /\ trace = <<>>
    /\ aircraft = NothingBuilt.aircraft
    /\ time = NothingBuilt.time
    /\ completed_aircraft = NothingBuilt.completed_aircraft
    /\ metrics_snapshot = NothingBuilt.metrics_snapshot
    /\ gates = NothingBuilt.cap.gates
    /\ holds = NothingBuilt.cap.holds
    /\ runways = NothingBuilt.cap.runways
    /\ edges = NothingBuilt.cap.edges
    /\ metrics = NothingBuilt.metrics
    /\ step_idx = 0
    /\ n_spawned = 0
    /\ n_brakes = 0
    /\ twin = NothingBuilt

RouteFrame ==
    UNCHANGED <<scenario, cache, aircraft, time, completed_aircraft,
                metrics_snapshot, gates, holds, runways, edges, metrics,
                step_idx, n_spawned, n_brakes, result, phases, trace, twin,
                session, last_update, query>>

\* A call of Router.find_route.
FindRoute ==
    /\ pc = "asked"
    /\ query.op = "find_route"
    /\ answer' = find_route(LayoutOf(scenario), cache, query.origin, query.destination,
                            query.aircraft_class, query.is_arrival)
    /\ pc' = "answered"
    /\ RouteFrame

\* A call of Router.reroute_if_needed.
RerouteIfNeeded ==
    /\ pc = "asked"
    /\ query.op = "reroute_if_needed"
    /\ answer' = reroute_if_needed(LayoutOf(scenario), query.current_node,
                                   query.original, query.idx, query.aircraft_class,
                                   query.is_arrival, query.blocked, query.congested)
    /\ pc' = "answered"
    /\ RouteFrame

RouteNext == FindRoute \/ RerouteIfNeeded

RouteSpec == RouteInit /\ [][RouteNext]_vars

\* ------------------------------------------------------------- properties
Layout == LayoutOf(scenario)
ActiveIds == {aircraft[i].id : i \in DOMAIN aircraft}
NonTerminal == {i \in DOMAIN aircraft : aircraft[i].status \notin Terminal}
OnEdge(e) == {i \in NonTerminal : current_edge_id(aircraft[i]) = e}
GateIds == {gates[g].occupied_by : g \in DOMAIN gates} \ {NoId}
QueuedIds == UNION {queue_ids(Capacity, h) : h \in DOMAIN holds}
RunwayIds == {runways[r].current_aircraft : r \in DOMAIN runways} \ {NoId}
EdgeListIds == UNION {SeqToSet(edges[e].aircraft_ids) : e \in DOMAIN edges}

\* C1: for every runway record, current_aircraft is set exactly when the state
\* is not clear, and the aircraft it names is exactly one aircraft of the
\* active list, whose status is neither departed nor parked.
C1_RunwayRecords ==
    \A r \in DOMAIN runways :
        /\ (runways[r].current_aircraft # NoId) <=> (runways[r].state # "clear")
        /\ runways[r].current_aircraft # NoId =>
              /\ Cardinality({i \in DOMAIN aircraft :
                                 aircraft[i].id = runways[r].current_aircraft}) = 1
              /\ \A i \in DOMAIN aircraft :
                    aircraft[i].id = runways[r].current_aircraft
                       => aircraft[i].status \notin Terminal

\* A departure has passed the hold point and taxis on the runway edge under the
\* runway record that names it, and an earlier occupant has released: a
\* departed aircraft is still listed.
C1_Witness ==
    /\ \E r \in DOMAIN runways : \E i \in DOMAIN aircraft :
          /\ runways[r].state = "occupied_departure"
          /\ runways[r].current_aircraft = aircraft[i].id
          /\ aircraft[i].status = "taking_off"
    /\ \E j \in DOMAIN aircraft : aircraft[j].status = "departed"

\* C2: every runway edge is the current edge of at most one non-terminal
\* aircraft.
C2_OneAircraftPerRunwayEdge ==
    \A e \in get_edges_by_type(Layout, "runway") : Cardinality(OnEdge(e)) <= 1

\* Two arrivals are on the same runway edge.
C2_TwoArrivalsOnRunwayEdge ==
    \E e \in get_edges_by_type(Layout, "runway") :
        \E i, j \in OnEdge(e) :
            i # j /\ aircraft[i].is_arrival /\ aircraft[j].is_arrival

\* A departure that stands in the hold zone while a runway record names it:
\* it occupied the record when it was let through, did not reach the end of
\* its edge in that tick, and is now refused by can_proceed_from_hold because
\* a runway record (its own) is not clear.
SelfBlockedAt(i) ==
    /\ ~aircraft[i].is_arrival
    /\ aircraft[i].status \notin Terminal
    /\ is_at_hold_point(aircraft[i], Layout)[1]
    /\ aircraft[i].id \in RunwayIds
    /\ ~can_proceed_from_hold(aircraft[i], Layout, Capacity)

\* Unbraked, a large departure of the linear layout completes in the seventh
\* tick after its spawn (taxiway 96, 192, 288, runway 84, 204, 324, end), a
\* medium one in the fifth; a braking draw that succeeds costs one tick.
DepartureDeadline == (7 + MaxBrakes) * Params("linear").time_step_size

Late(i) ==
    /\ ~aircraft[i].is_arrival
    /\ time - aircraft[i].spawning_time >= DepartureDeadline
    /\ aircraft[i].status # "departed"

\* C3: in the linear departures-only layout every spawned departure reaches
\* status departed (within the ticks the bounded number of braking draws
\* allows), and the gate of a departed aircraft no longer names it.
C3_LinearDeparturesDepart ==
    scenario = "linear" =>
        /\ \A i \in DOMAIN aircraft : ~Late(i)
        /\ \A i \in DOMAIN aircraft :
              aircraft[i].status = "departed"
                 => gates[aircraft[i].gate_id].occupied_by # aircraft[i].id

\* A departure of the linear layout is blocked at the hold point by the runway
\* record that names it.
C3_SelfBlocked ==
    /\ scenario = "linear"
    /\ \E i \in DOMAIN aircraft : SelfBlockedAt(i) /\ Late(i)

\* C3, lemma: the only departures of the linear layout that miss the deadline
\* are the ones blocked by their own runway record.
C3_OnlySelfBlockedIsLate ==
    scenario = "linear" => \A i \in DOMAIN aircraft : Late(i) => SelfBlockedAt(i)

\* C3, lemma: a departure blocked by its own runway record stays so in every
\* later tick, in every layout.
C3_SelfBlockedForever ==
    [][\A i \in DOMAIN aircraft :
          SelfBlockedAt(i) =>
             \E j \in DOMAIN aircraft' :
                /\ aircraft'[j].id = aircraft[i].id
                /\ aircraft'[j].position_on_edge = aircraft[i].position_on_edge
                /\ aircraft'[j].current_edge_idx = aircraft[i].current_edge_idx
                /\ aircraft'[j].status = aircraft[i].status
                /\ aircraft'[j].id \in {runways'[r].current_aircraft : r \in DOMAIN runways'}]_vars

\* C4: two runs with the same layout, parameters and seed return the same
\* results, the ids of the completed-flight records included.
C4_SameResults == pc = "done" => twin.metrics = metrics

\* Both runs have completed a flight, and the records differ in the id only.
C4_SameFlightsOtherIds ==
    /\ pc = "done"
    /\ metrics.completed_flights # <<>>
    /\ twin.metrics.times = metrics.times
    /\ Len(twin.metrics.completed_flights) = Len(metrics.completed_flights)
    /\ \A k \in DOMAIN metrics.completed_flights :
          /\ twin.metrics.completed_flights[k].id # metrics.completed_flights[k].id
          /\ [twin.metrics.completed_flights[k] EXCEPT !.id = NoId]
                = [metrics.completed_flights[k] EXCEPT !.id = NoId]

\* C5: the occupancy counts of all edges sum to the number of aircraft of the
\* active list whose status is neither departed nor parked.
C5_EdgeBookkeeping ==
    SumOver([e \in DOMAIN edges |-> Len(edges[e].aircraft_ids)])
        = Cardinality(NonTerminal)

\* An aircraft has moved on to a later edge of its route while a completed
\* aircraft is still listed.
C5_Witness ==
    /\ \E i \in NonTerminal : aircraft[i].current_edge_idx >= 1
    /\ \E j \in DOMAIN aircraft : aircraft[j].status \in Terminal
    /\ \E e \in DOMAIN edges : Len(edges[e].aircraft_ids) = 1

\* C6: no aircraft id is the occupied_by of two gates, and a gate has
\* occupied_by set exactly when its state is not free.
C6_Gates ==
    /\ \A g \in DOMAIN gates : (gates[g].occupied_by # NoId) <=> (gates[g].state # "free")
    /\ \A g, h \in DOMAIN gates :
          (g # h /\ gates[g].occupied_by # NoId)
             => gates[g].occupied_by # gates[h].occupied_by

\* A gate is occupied by a taxiing aircraft while the gate of a departed
\* aircraft has been released.
C6_Witness ==
    /\ \E i \in NonTerminal : gates[aircraft[i].gate_id].occupied_by = aircraft[i].id
    /\ \E j \in DOMAIN aircraft :
          /\ aircraft[j].status = "departed"
          /\ gates[aircraft[j].gate_id].state = "free"

\* C7: every id in a gate's occupied_by, a hold queue, a runway's
\* current_aircraft or an edge's occupancy list is the id of an aircraft of
\* the active list.
C7_IdsAreActive ==
    (GateIds \cup QueuedIds \cup RunwayIds \cup EdgeListIds) \subseteq ActiveIds

\* A parked arrival has been evicted and its gate still names it.
C7_EvictedHoldsGate ==
    \E g \in DOMAIN gates :
        /\ gates[g].occupied_by \in SeqToSet(completed_aircraft)
        /\ gates[g].occupied_by \notin ActiveIds

\* C8: every aircraft of the active list has 0 <= speed <= the speed limit of
\* its current edge for its class and the weather.
C8_SpeedBounds ==
    \A i \in DOMAIN aircraft :
        /\ aircraft[i].speed >= 0
        /\ current_edge_id(aircraft[i]) # NoId =>
              aircraft[i].speed <= get_speed_limit(Layout.edges[current_edge_id(aircraft[i])],
                                                   aircraft[i].aircraft_class,
                                                   Params(scenario))

\* An arrival has just left the runway for the taxiway at its runway speed.
C8_FasterThanLimit ==
    \E i \in NonTerminal :
        /\ aircraft[i].status = "taxiing_in"
        /\ aircraft[i].speed >
              get_speed_limit(Layout.edges[current_edge_id(aircraft[i])],
                              aircraft[i].aircraft_class, Params(scenario))

C10_RouteProgress ==
    [][/\ \A i \in DOMAIN aircraft : \A j \in DOMAIN aircraft' :
             aircraft'[j].id = aircraft[i].id =>
                \/ aircraft'[j].current_edge_idx = aircraft[i].current_edge_idx
                \/ aircraft'[j].current_edge_idx = aircraft[i].current_edge_idx + 1
       /\ \A j \in DOMAIN aircraft' : aircraft'[j].position_on_edge >= 0]_vars

\* An aircraft is two edges into its route, past the start of the edge, after a
\* braking draw has succeeded.
C10_Witness ==
    /\ n_brakes >= 1
    /\ \E i \in NonTerminal :
          aircraft[i].current_edge_idx >= 2 /\ aircraft[i].position_on_edge > 0

\* ---------------------------------------------------------------- C11
\* The aircraft at place i is within the last 5% of an edge that ends at a
\* hold point, and the next edge of its route is a runway.
AtHoldBeforeRunway(i) ==
    LET a == aircraft[i]
    IN  /\ i \in NonTerminal
        /\ is_at_hold_point(a, Layout)[1]
        /\ a.current_edge_idx + 1 < Len(a.route.edges)
        /\ Layout.edges[a.route.edges[a.current_edge_idx + 2]].edge_type = "runway"

SomeRunwayClear == \E r \in DOMAIN runways : runway_is_available(runways[r])

C12_OneActiveOneQueued ==
    scenario = "linear" =>
        /\ Cardinality(NonTerminal) <= 1
        /\ \A h \in DOMAIN holds : Len(holds[h]) <= 1

\* The second departure of a one-gate run taxis while the first, departed, is
\* still listed.
C12_Witness ==
    /\ scenario = "linear"
    /\ Cardinality(get_gates(Layout)) = 1
    /\ Cardinality(DOMAIN runways) = 1
    /\ n_spawned = 2
    /\ Len(aircraft) = 2
    /\ Cardinality(NonTerminal) = 1

\* ---------------------------------------------------------------- C13
\* The spawn attempts that the next tick can make from this tick boundary:
\* the departure attempt on the present capacity state, the arrival attempt on
\* the capacity state the departure phase leaves.
DepartureAttempt(d) ==
    spawn_departures(Layout, Params(scenario), Capacity, cache, time,
                     Params(scenario).time_step_size, d, uuid4(n_spawned + 1, 0))

ArrivalAttempt(w, d) ==
    spawn_arrivals(Layout, Params(scenario), w.cap, cache, w.time,
                   Params(scenario).time_step_size, d, uuid4(w.n_spawned + 1, 0))

\* Every spawn attempt of the next tick that produces no aircraft returns
\* the capacity state it was given.
FailedSpawnFrame ==
    (pc = "running" /\ step_idx < total_steps(Params(scenario))) =>
        /\ \A dep_draw \in SpawnDraws(Layout, Params(scenario), FALSE, n_spawned) :
              LET w1 == AfterDepartures(World, Layout, Params(scenario), cache, dep_draw)
              IN  /\ DepartureAttempt(dep_draw)[1] = <<>> =>
                        /\ DepartureAttempt(dep_draw)[2] = Capacity
                        /\ w1.cap = Capacity
                  /\ \A arr_draw \in SpawnDraws(Layout, Params(scenario), TRUE,
                                                w1.n_spawned) :
                        ArrivalAttempt(w1, arr_draw)[1] = <<>> =>
                            /\ ArrivalAttempt(w1, arr_draw)[2] = w1.cap
                            /\ AfterArrivals(w1, Layout, Params(scenario), cache,
                                             arr_draw).cap = w1.cap

\* A tick runs all its phases: the kernel advances the time by dt and the
\* collector records one more point.
TickRunsThrough ==
    step_idx' # step_idx =>
        /\ step_idx' = step_idx + 1
        /\ time' = time + Params(scenario).time_step_size
        /\ Len(metrics'.times) = Len(metrics.times) + 1

\* C13: a spawn attempt that produces no aircraft (no free compatible gate,
\* no active runway end, no route) leaves gates, edge occupancies, hold
\* queues and runway records as they were, and the tick goes on with its
\* next phases.
C13_FailedSpawnChangesNothing == []FailedSpawnFrame /\ [][TickRunsThrough]_vars

\* After at least one tick, an arrival attempt that draws a spawn takes the
\* free gate, finds no route to it and emits nothing; and a departure attempt
\* that draws a spawn finds the only gate occupied.
C13_Witness ==
    /\ scenario = "restricted"
    /\ step_idx > 1
    /\ \E d \in SpawnDraws(Layout, Params(scenario), TRUE, n_spawned) :
          /\ d # NoDraw
          /\ assign_gate(Capacity, PENDING, d.size_class)[1] # NoId
          /\ get_route(Layout, cache, d.endpoint,
                       assign_gate(Capacity, PENDING, d.size_class)[1],
                       d.size_class, TRUE) = NoRoute
          /\ ArrivalAttempt(World, d)[1] = <<>>
    /\ \E i \in DOMAIN aircraft : aircraft[i].status = "departed"

\* ---------------------------------------------------------------- C14
\* The structural rules a layout breaks: one per edge endpoint that is not a
\* node, and one each for no runway edge, no gate, no runway end.
Violations(layout) ==
    {<<e, "start">> : e \in {x \in EdgeIds(layout) :
                               layout.edges[x].start_node \notin NodeIds(layout)}}
    \cup {<<e, "end">> : e \in {x \in EdgeIds(layout) :
                                  layout.edges[x].end_node \notin NodeIds(layout)}}
    \cup (IF \A e \in EdgeIds(layout) : layout.edges[e].edge_type # "runway"
          THEN {<<NoId, "runway">>} ELSE {})
    \cup (IF \A n \in NodeIds(layout) : layout.nodes[n].node_type # "gate"
          THEN {<<NoId, "gate">>} ELSE {})
    \cup (IF \A n \in NodeIds(layout) : layout.nodes[n].node_type # "runway_end"
          THEN {<<NoId, "runway_end">>} ELSE {})

NoTickExecuted ==
    /\ pc = "done"
    /\ step_idx = 0
    /\ n_spawned = 0
    /\ aircraft = <<>>
    /\ completed_aircraft = <<>>
    /\ metrics.times = <<>>
    /\ metrics.completed_flights = <<>>
    /\ metrics_snapshot = EmptySnapshot

\* C14: for a layout that breaks a structural rule (and parameters that
\* parse), the call returns 'Layout validation failed' with one message per
\* broken rule, and executes no tick: nothing is spawned, nothing recorded.
C14_InvalidLayoutRejected ==
    (Violations(Layout) # {} /\ ~from_dict_raises(Params(scenario))) =>
        /\ result.error = "Layout validation failed"
        /\ Len(result.details) = Cardinality(Violations(Layout))
        /\ Cardinality(SeqToSet(result.details)) = Len(result.details)
        /\ NoTickExecuted

\* The call on the layout that breaks all rules has returned five messages.
C14_Witness ==
    /\ scenario = "broken"
    /\ Cardinality(Violations(Layout)) = 5
    /\ result.error = "Layout validation failed"
    /\ Len(result.details) = 5
    /\ pc = "done"

\* ---------------------------------------------------------------- C15
\* A parameter bundle with an unknown enum value or a negative spawn rate.
ParamInvalid(data) ==
    \/ data.traffic_mode \notin TrafficModes
    \/ data.departure_spawn_rate.mode \notin ParamModes
    \/ data.arrival_spawn_rate.mode \notin ParamModes
    \/ data.runway_priority_mode \notin PriorityModes
    \/ data.intersection_priority_mode \notin PriorityModes
    \/ data.hold_release_priority \notin PriorityModes
    \/ data.weather_condition \notin {"good", "mild", "bad"}
    \/ data.departure_spawn_rate.value < 0
    \/ data.arrival_spawn_rate.value < 0

\* C15: a parameter bundle with an unknown enum value or a negative spawn
\* rate is rejected before the first tick: the call returns an error result
\* and executes no tick.
C15_InvalidParamsRejected ==
    ParamInvalid(Params(scenario)) =>
        /\ result.error \notin {"pending", "none"}
        /\ NoTickExecuted

\* The run with a departure spawn rate of -1 has executed all its ticks and
\* returned its results without an error.
C15_NegativeRateRan ==
    /\ Params(scenario).departure_spawn_rate.value < 0
    /\ pc = "done"
    /\ result.error = "none"
    /\ step_idx = total_steps(Params(scenario))
    /\ Len(metrics.times) = total_steps(Params(scenario))
    /\ n_spawned = 0

\* The bundle with an unknown traffic mode is rejected by the Enum constructor.
C15_UnknownModeRejected ==
    Params(scenario).traffic_mode \notin TrafficModes =>
        /\ result.error = "ValueError"
        /\ NoTickExecuted

\* ---------------------------------------------------------------- C16
\* C16: within every tick the phases run in the order advance the waiting
\* times of the hold queues, spawn departures and arrivals, move, record; no
\* spawn of a tick comes before that tick's advance of the waiting times.
C16_PhaseOrder ==
    step_idx > 0 =>
        phases = <<"advance_waiting", "spawn_departures", "spawn_arrivals",
                   "move", "record">>

\* A tick in which an aircraft was spawned and the waiting time of a queued
\* aircraft was advanced has run the spawn phases first.
C16_SpawnBeforeAdvance ==
    /\ phases = <<"spawn_departures", "spawn_arrivals", "advance_waiting",
                  "move", "record">>
    /\ \E i \in DOMAIN aircraft :
          aircraft[i].spawning_time = time - Params(scenario).time_step_size
    /\ \E h \in DOMAIN holds : \E k \in DOMAIN holds[h] : holds[h][k].waited > 0

\* ---------------------------------------------------------------- C17
\* floor(total_duration / dt) for the run's parameters.
TickCount == Params(scenario).total_duration \div Params(scenario).time_step_size

\* C17: a run on a valid layout executes exactly floor(total_duration / dt)
\* ticks and then returns; tick k (from 0) records its observables under the
\* time stamp k * dt, the time before that tick's advance, so the time series
\* end with exactly that many points.
C17_TicksAndStamps ==
    load_error(scenario) = NoResult =>
        /\ step_idx <= TickCount
        /\ Len(metrics.times) = step_idx
        /\ \A k \in DOMAIN metrics.times :
              metrics.times[k] = (k - 1) * Params(scenario).time_step_size
        /\ time = step_idx * Params(scenario).time_step_size
        /\ pc = "done" => /\ step_idx = TickCount
                          /\ Len(metrics.times) = TickCount
                          /\ result.error = "none"

\* A run with traffic has returned after its last tick.
C17_Witness ==
    /\ scenario = "airfield"
    /\ pc = "done"
    /\ result.error = "none"
    /\ n_spawned > 0
    /\ TickCount = MaxTicks
    /\ Len(metrics.times) = MaxTicks
    /\ metrics.times[MaxTicks] = (MaxTicks - 1) * Params(scenario).time_step_size

\* ---------------------------------------------------------------- C18
\* The flight records of the aircraft that have become terminal so far.
Completed == SeqToSet(metrics.completed_flights)

TerminalListedWithinGrace ==
    /\ \A i \in DOMAIN aircraft :
          aircraft[i].status \in Terminal =>
              /\ aircraft[i].completion_time # NoTime
              /\ time - aircraft[i].completion_time <= 60
    /\ \A f \in Completed :
          /\ time - f.completion_time <= 60 =>
                \E i \in DOMAIN aircraft :
                    aircraft[i].id = f.id /\ aircraft[i].status \in Terminal
          /\ time - f.completion_time > 60 => f.id \notin ActiveIds

NonTerminalStaysListed ==
    \A i \in DOMAIN aircraft :
        aircraft[i].status \notin Terminal => aircraft[i].id \in ActiveIds'

\* C18: a departed or parked aircraft is in the active list at every tick
\* boundary whose time is at most 60 s after its completion_time and at none
\* that is later; a non-terminal aircraft is never removed from the list.
C18_EvictionAfterGrace == []TerminalListedWithinGrace /\ [][NonTerminalStaysListed]_vars

\* One finished aircraft is listed exactly 60 s after its completion while
\* another, finished earlier, has been evicted.
C18_Witness ==
    /\ \E i \in DOMAIN aircraft :
          /\ aircraft[i].status \in Terminal
          /\ time - aircraft[i].completion_time = 60
    /\ \E f \in Completed :
          /\ time - f.completion_time > 60
          /\ f.id \notin ActiveIds
          /\ f.id \in SeqToSet(completed_aircraft)

\* ---------------------------------------------------------------- C19
\* The aircraft at place i of the list is on an edge of its route now and has
\* left the last edge of its route after the step, where it is at place j.
CompletesRoute(i, j) ==
    /\ aircraft'[j].id = aircraft[i].id
    /\ aircraft[i].current_edge_idx < Len(aircraft[i].route.edges)
    /\ aircraft'[j].current_edge_idx >= Len(aircraft'[j].route.edges)

FinishedInThisTick ==
    \A i \in DOMAIN aircraft : \A j \in DOMAIN aircraft' :
        CompletesRoute(i, j) =>
            LET a == aircraft'[j]
            IN  /\ a.completion_time = time'
                /\ a.speed = 0
                /\ a.is_arrival =>
                      /\ a.status = "parked"
                      /\ gates'[a.gate_id].state = "occupied"
                      /\ gates'[a.gate_id].occupied_by = a.id
                /\ ~a.is_arrival =>
                      /\ a.status = "departed"
                      /\ gates'[a.gate_id].state = "free"
                      /\ gates'[a.gate_id].occupied_by = NoId
                /\ \A r \in DOMAIN runways' : runways'[r].current_aircraft # a.id
                /\ \A e \in DOMAIN edges' : a.id \notin SeqToSet(edges'[e].aircraft_ids)

NoRecordNamesFinished ==
    \A f \in Completed : f.id \notin RunwayIds \cup EdgeListIds

\* C19: in the tick in which an aircraft completes the last edge of its
\* route its completion_time is set and its speed is 0; an arrival is parked
\* and its gate stays occupied by it, a departure is departed and its gate is
\* free with occupied_by cleared; from then on no runway record and no edge
\* occupancy list names it.
C19_Completion == [][FinishedInThisTick]_vars /\ []NoRecordNamesFinished

\* A departure and an arrival have both completed their routes: the gate of
\* the departure is free, the gate of the arrival is occupied by it.
C19_Witness ==
    /\ \E i \in DOMAIN aircraft :
          /\ aircraft[i].status = "departed"
          /\ aircraft[i].completion_time = time
          /\ gates[aircraft[i].gate_id].state = "free"
    /\ \E f \in Completed :
          /\ f.type = "arrival"
          /\ gates[f.gate].occupied_by = f.id

\* ---------------------------------------------------------------- C20
OtherAttrs(params) == DOMAIN params \ safe_params

IsSafe(item) == item.key \in safe_params

OnlySafeKeysCount(obj, u) ==
    LET holds_for(r) ==
            /\ \A k \in OtherAttrs(obj.params) : r.params[k] = obj.params[k]
            /\ DOMAIN r.params = DOMAIN obj.params
            /\ r.rng = obj.rng
            /\ r = apply_midrun_update(obj, SelectSeq(ItemsOf(u), IsSafe))
            /\ (\A i \in DOMAIN u : ~IsSafe(ItemsOf(u)[i])) =>
                   /\ r.params = obj.params
                   /\ r.error = "none"
    IN  holds_for(apply_midrun_update(obj, ItemsOf(u)))

EveryUpdateKeepsRest ==
    pc = "session" => \A u \in Updates : OnlySafeKeysCount(session, u)

UpdateStepKeepsRest ==
    pc = "session" /\ last_update' # last_update =>
        /\ session'.rng = session.rng
        /\ \A k \in OtherAttrs(session.params) :
               session'.params[k] = session.params[k]

\* C20: apply_midrun_update changes nothing but the two spawn rates, the
\* weather, the wind speed and direction and the three priority modes: for
\* every update, every other attribute and the generator's state are as
\* before, the call does what it does for the update's safe keys alone, and
\* an update of other keys only changes nothing and raises no error.
C20_OnlySafeKeysChange == []EveryUpdateKeepsRest /\ [][UpdateStepKeepsRest]_vars

\* After draws from the generator an update naming random_seed and the
\* weather has been applied: the weather is the new one, the seed and the
\* generator are the old ones.
C20_Witness ==
    /\ pc = "session"
    /\ \E i, j \in DOMAIN last_update :
          /\ ItemsOf(last_update)[i].key = "random_seed"
          /\ ItemsOf(last_update)[i].value # session.params.random_seed
          /\ ItemsOf(last_update)[j].key = "weather_condition"
          /\ session.params.weather_condition.value = ItemsOf(last_update)[j].value
    /\ session.rng.draws > 0
    /\ session.rng.seed = session.params.random_seed
    /\ session.error = "none"

\* ---------------------------------------------------------------- C21
\* The rules of the specification for using an edge, stated on their own.
MayUse(edge, is_arrival) ==
    /\ edge.allowed_flow \in {"both", IF is_arrival THEN "arrival" ELSE "departure"}
    /\ edge.edge_type = "rapid_exit" => is_arrival

\* The node reached by taking edge e at node n, NoId when e cannot be taken
\* there: forward always, in reverse only when the edge is not one_way.
Across(layout, e, n) ==
    IF layout.edges[e].start_node = n THEN layout.edges[e].end_node
    ELSE IF layout.edges[e].end_node = n /\ ~layout.edges[e].one_way
    THEN layout.edges[e].start_node
    ELSE NoId

\* Every legal path without a repeated node from n to d that avoids the
\* nodes of seen and the edges of banned.
RECURSIVE SimplePaths(_, _, _, _, _, _)
SimplePaths(layout, n, d, seen, is_arrival, banned) ==
    IF n = d THEN {<<>>}
    ELSE UNION {{<<e>> \o p :
                    p \in SimplePaths(layout, Across(layout, e, n), d,
                                      seen \cup {Across(layout, e, n)},
                                      is_arrival, banned)} :
                e \in {x \in EdgeIds(layout) \ banned :
                          /\ Across(layout, x, n) # NoId
                          /\ Across(layout, x, n) \notin seen
                          /\ MayUse(layout.edges[x], is_arrival)}}

LegalPaths(layout, o, d, is_arrival, banned) ==
    IF o \notin NodeIds(layout) \/ d \notin NodeIds(layout) THEN {}
    ELSE SimplePaths(layout, o, d, {o}, is_arrival, banned)

PathCost(layout, p, congested) ==
    SumOver([i \in DOMAIN p |-> IF p[i] \in congested
                                THEN 2 * layout.edges[p[i]].length
                                ELSE layout.edges[p[i]].length])

ShortestAmong(layout, r, paths, congested) ==
    /\ r.edges \in paths
    /\ \A p \in paths : PathCost(layout, r.edges, congested) <= PathCost(layout, p, congested)

FoundRouteIsShortest(layout, q, r) ==
    LET right(paths) ==
            /\ r = NoRoute <=> paths = {}
            /\ r # NoRoute =>
                  /\ r.origin_node = q.origin
                  /\ r.destination_node = q.destination
                  /\ ShortestAmong(layout, r, paths, {})
                  /\ r.total_length = PathCost(layout, r.edges, {})
    IN  right(LegalPaths(layout, q.origin, q.destination, q.is_arrival, {}))

\* C21: for every origin, destination, class and direction find_route
\* returns a connected, accessible, direction-legal edge sequence from origin
\* to destination whose total_length is the sum of its edge lengths and is
\* least among all such paths, and it returns null exactly when there is none.
C21_FindRouteShortest ==
    pc = "answered" /\ query.op = "find_route" =>
        FoundRouteIsShortest(LayoutOf(scenario), query, answer)

\* find_route has answered a departure on the diamond with the shorter of
\* two legal paths of different lengths.
C21_Witness ==
    /\ pc = "answered"
    /\ query.op = "find_route"
    /\ ~query.is_arrival
    /\ answer # NoRoute
    /\ Len(answer.edges) >= 3
    /\ \E p \in LegalPaths(LayoutOf(scenario), query.origin, query.destination,
                           query.is_arrival, {}) :
          PathCost(LayoutOf(scenario), p, {}) > answer.total_length

\* ---------------------------------------------------------------- C22
\* The rest of the original route, from the current edge on, holds a blocked
\* edge.
RemainingBlocked(q) ==
    \E i \in (q.idx + 1)..Len(q.original.edges) : q.original.edges[i] \in q.blocked

ReroutedShortest(layout, q, r) ==
    LET right(paths) ==
            /\ r = NoRoute <=> paths = {}
            /\ r # NoRoute =>
                  /\ r.origin_node = q.current_node
                  /\ r.destination_node = q.original.destination_node
                  /\ r.edges \in paths
                  /\ \A i \in DOMAIN r.edges : r.edges[i] \notin q.blocked
                  /\ ShortestAmong(layout, r, paths, q.congested)
    IN  right(LegalPaths(layout, q.current_node, q.original.destination_node,
                         q.is_arrival, q.blocked))

\* C22: when an edge of the rest of the original route is blocked,
\* reroute_if_needed returns a route from the current node to the original
\* destination without any blocked edge, over accessible and direction-legal
\* edges only, of least cost with congested edges counted double; it returns
\* null only when there is no such path.
C22_RerouteShortestUnblocked ==
    pc = "answered" /\ query.op = "reroute_if_needed" /\ RemainingBlocked(query) =>
        ReroutedShortest(LayoutOf(scenario), query, answer)

\* A reroute has been answered with a route that is not the shortest in
\* metres: the shorter unblocked path has a congested edge.
C22_Witness ==
    /\ pc = "answered"
    /\ query.op = "reroute_if_needed"
    /\ RemainingBlocked(query)
    /\ answer # NoRoute
    /\ \E p \in LegalPaths(LayoutOf(scenario), query.current_node,
                           query.original.destination_node, query.is_arrival,
                           query.blocked) :
          /\ PathCost(LayoutOf(scenario), p, {})
                < PathCost(LayoutOf(scenario), answer.edges, {})
          /\ \E i \in DOMAIN p : p[i] \in query.congested

\* ---------------------------------------------------------------- C23
\* C23: if no edge of original.edges[idx:] is blocked, reroute_if_needed
\* returns null whatever the congested set, the current node and the class.
C23_UnblockedKeepsRoute ==
    pc = "answered" /\ query.op = "reroute_if_needed" /\ ~RemainingBlocked(query) =>
        answer = NoRoute

\* A reroute was asked for with a blocked edge behind the aircraft and a
\* congested edge ahead of it, and the answer is null.
C23_Witness ==
    /\ pc = "answered"
    /\ query.op = "reroute_if_needed"
    /\ ~RemainingBlocked(query)
    /\ \E i \in 1..query.idx : query.original.edges[i] \in query.blocked
    /\ \E i \in (query.idx + 1)..Len(query.original.edges) :
          query.original.edges[i] \in query.congested
    /\ answer = NoRoute

\* ---------------------------------------------------------------- C24
\* The node an aircraft is at after the first idx edges of its route.
RECURSIVE NodeAfter(_, _, _)
NodeAfter(layout, route, idx) ==
    IF idx = 0 THEN route.origin_node
    ELSE Across(layout, route.edges[idx], NodeAfter(layout, route, idx - 1))

TravelledPrefix(q) == {q.original.edges[i] : i \in 1..q.idx}

\* The aircraft is at the node its route has brought it to and no edge behind
\* it is blocked.
AtItsNode(q) ==
    /\ q.idx < Len(q.original.edges)
    /\ q.current_node = NodeAfter(LayoutOf(scenario), q.original, q.idx)
    /\ TravelledPrefix(q) \cap q.blocked = {}

\* C24: a route returned by reroute_if_needed for an aircraft at its node
\* contains no edge of the travelled prefix original.edges[0:idx], also when
\* those edges are bidirectional.
C24_NoBacktrack ==
    pc = "answered" /\ query.op = "reroute_if_needed" /\ AtItsNode(query)
        /\ answer # NoRoute =>
            \A i \in DOMAIN answer.edges : answer.edges[i] \notin TravelledPrefix(query)

\* The returned route starts with the bidirectional edge the aircraft has
\* just travelled, taken in reverse.
C24_BacktracksOverPrefix ==
    /\ pc = "answered"
    /\ query.op = "reroute_if_needed"
    /\ AtItsNode(query)
    /\ query.idx > 0
    /\ answer # NoRoute
    /\ answer.edges # <<>>
    /\ answer.edges[1] = query.original.edges[query.idx]

\* ---------------------------------------------------------------- C25
\* The spawn rate parameter of a direction, and whether the traffic mode
\* leaves the direction out.
RateParam(params, is_arrival) ==
    IF is_arrival THEN params.arrival_spawn_rate ELSE params.departure_spawn_rate

Excluded(params, is_arrival) ==
    \/ params.traffic_mode = "departures_only" /\ is_arrival
    \/ params.traffic_mode = "arrivals_only" /\ ~is_arrival

\* A spawn is allowed: the direction is not excluded, its parameter is not
\* off, its rate is positive and u (in percent) is at most (rate/60)*dt.
MaySpawn(params, is_arrival, u) ==
    /\ ~Excluded(params, is_arrival)
    /\ RateParam(params, is_arrival).mode # "off"
    /\ RateParam(params, is_arrival).value > 0
    /\ u * 60 <= RateParam(params, is_arrival).value * params.time_step_size * 100

\* The parameters of the run and their variants: each traffic mode, each
\* direction switched off, at rate 0 and at a negative rate.
ParamVariants(params) ==
    {[params EXCEPT !.traffic_mode = m] : m \in TrafficModes}
    \cup {[params EXCEPT !.departure_spawn_rate = r] :
             r \in {[mode |-> "off", value |-> 1], [mode |-> "fixed", value |-> 0],
                    [mode |-> "fixed", value |-> -1]}}
    \cup {[params EXCEPT !.arrival_spawn_rate = r] :
             r \in {[mode |-> "off", value |-> 1], [mode |-> "fixed", value |-> 0],
                    [mode |-> "fixed", value |-> -1]}}

\* Draws on both sides of the spawn probability.
TrialDraws(layout) ==
    {[u |-> u, size_class |-> c, endpoint |-> e] :
        u \in {0, 50, 51, 99}, c \in Classes, e \in get_runway_ends(layout)}

SpawnsOnlyWhenAllowed ==
    pc = "running" =>
        \A p \in ParamVariants(Params(scenario)) : \A d \in TrialDraws(Layout) :
            LET ok(dep, arr) ==
                    /\ Len(dep) <= 1
                    /\ Len(arr) <= 1
                    /\ dep # <<>> => MaySpawn(p, FALSE, d.u) /\ ~dep[1].is_arrival
                    /\ arr # <<>> => MaySpawn(p, TRUE, d.u) /\ arr[1].is_arrival
            IN  ok(spawn_departures(Layout, p, Capacity, cache, time,
                                    p.time_step_size, d, uuid4(n_spawned + 1, 0))[1],
                   spawn_arrivals(Layout, p, Capacity, cache, time,
                                  p.time_step_size, d, uuid4(n_spawned + 1, 0))[1])

\* The aircraft of the next state that the current state does not know.
Added(is_arrival) ==
    {j \in DOMAIN aircraft' :
        /\ aircraft'[j].is_arrival = is_arrival
        /\ aircraft'[j].id \notin ActiveIds
        /\ aircraft'[j].id \notin SeqToSet(completed_aircraft)}

AtMostOnePerDirection ==
    \A dir \in BOOLEAN :
        /\ Cardinality(Added(dir)) <= 1
        /\ Added(dir) # {} => \E u \in {0, 50} : MaySpawn(Params(scenario), dir, u)

\* C25: each tick adds at most one departure and at most one arrival to the
\* active list; a direction adds none when its rate is <= 0, when its
\* parameter is off or when traffic_mode excludes it; an aircraft is spawned
\* only when the drawn u is at most (rate/60)*dt.
C25_SpawnBernoulli == []SpawnsOnlyWhenAllowed /\ [][AtMostOnePerDirection]_vars

\* One tick has added a departure and an arrival.
C25_Witness ==
    \E i, j \in DOMAIN aircraft :
        /\ ~aircraft[i].is_arrival
        /\ aircraft[j].is_arrival
        /\ aircraft[i].spawning_time = aircraft[j].spawning_time

\* ---------------------------------------------------------------- C26
\* RunwayStatus.occupy on a record that is not clear leaves the record as it
\* is, whoever asks.
OccupyOfBusyRecordFails ==
    pc = "running" =>
        \A r \in DOMAIN runways : runways[r].state # "clear" =>
            \A id \in ActiveIds \cup {uuid4(n_spawned + 1, 0)} : \A arr \in BOOLEAN :
                occupy(runways[r], id, arr) = runways[r]

\* CapacityState.occupy_runway on a record that is not clear returns False
\* and changes nothing, whoever asks.
OccupyOfBusyRunwayFails ==
    pc = "running" =>
        \A r \in DOMAIN runways : runways[r].state # "clear" =>
            \A id \in ActiveIds \cup {uuid4(n_spawned + 1, 0)} : \A arr \in BOOLEAN :
                occupy_runway(Capacity, id, r, arr) = <<FALSE, Capacity>>

\* No round of the kernel's loop hands a record that is not clear to another
\* aircraft: after the round the record is clear or as it was.
RoundsKeepOccupant ==
    \A k \in DOMAIN trace : \A r \in DOMAIN trace[k].cap_pre.runways :
        /\ trace[k].cap_pre.runways[r].state # "clear"
        /\ trace[k].cap_post.runways[r].state # "clear"
        => trace[k].cap_post.runways[r] = trace[k].cap_pre.runways[r]

\* Nothing but the rounds of the loop touches the runway records: the first
\* round of a tick starts from the records of the state before, each round
\* from those the round before left, and the tick ends with those of its
\* last round.
RunwayRecordsChain ==
    IF trace' = <<>> THEN runways' = runways
    ELSE /\ trace'[1].cap_pre.runways = runways
         /\ \A k \in 1..(Len(trace') - 1) :
                trace'[k + 1].cap_pre.runways = trace'[k].cap_post.runways
         /\ runways' = trace'[Len(trace')].cap_post.runways

\* The part of C26 that the kernel and CapacityState.occupy_runway keep:
\* occupy_runway fails on a record that is not clear, and over a run no
\* record that is not clear passes to another aircraft without a release.
C26_KernelKeepsOccupant ==
    /\ [](OccupyOfBusyRunwayFails /\ RoundsKeepOccupant)
    /\ [][step_idx' # step_idx => RunwayRecordsChain]_vars

\* C26: an occupy on a runway that is not clear fails and leaves the state
\* and current_aircraft of the runway unchanged; over a run the
\* current_aircraft of a runway that is not clear is never replaced by
\* another aircraft without a release in between.
C26_RunwayMutualExclusion ==
    /\ [](OccupyOfBusyRecordFails /\ OccupyOfBusyRunwayFails /\ RoundsKeepOccupant)
    /\ [][step_idx' # step_idx => RunwayRecordsChain]_vars

\* A runway record names one aircraft while another one waits in the hold
\* queue: RunwayStatus.occupy for the waiting one would put its id on the
\* record.
C26_OccupyOverwrites ==
    \E r \in DOMAIN runways : \E h \in DOMAIN holds : \E id \in queue_ids(Capacity, h) :
        /\ runways[r].state # "clear"
        /\ runways[r].current_aircraft # id
        /\ occupy(runways[r], id, FALSE).current_aircraft = id

\* ---------------------------------------------------------------- C27
\* Round k of the last tick found its aircraft at a hold point and not
\* allowed to proceed.
BlockedAtHold(k) ==
    /\ trace[k].pre.status \notin Terminal
    /\ trace[k].pre.current_edge_idx < Len(trace[k].pre.route.edges)
    /\ is_at_hold_point(trace[k].pre, Layout)[1]
    /\ ~can_proceed_from_hold(trace[k].pre, Layout, trace[k].cap_pre)

HoldOf(k) == is_at_hold_point(trace[k].pre, Layout)[2]

TimesQueued(queue, id) == Cardinality({i \in DOMAIN queue : queue[i].id = id})

\* C27: in a tick in which an aircraft is blocked at a hold point its speed
\* is 0 after the tick, its position_on_edge and current_edge_idx are
\* unchanged, no runway record and no edge occupancy list changes in its
\* round, and its id is in the queue of that hold point exactly once.
C27_BlockedAtHoldStands ==
    \A k \in DOMAIN trace : BlockedAtHold(k) =>
        /\ trace[k].post.speed = 0
        /\ trace[k].post.position_on_edge = trace[k].pre.position_on_edge
        /\ trace[k].post.current_edge_idx = trace[k].pre.current_edge_idx
        /\ trace[k].cap_post.runways = trace[k].cap_pre.runways
        /\ trace[k].cap_post.edges = trace[k].cap_pre.edges
        /\ TimesQueued(trace[k].cap_post.holds[HoldOf(k)], trace[k].pre.id) = 1
        /\ TimesQueued(holds[HoldOf(k)], trace[k].pre.id) = 1
        /\ \E i \in DOMAIN aircraft : aircraft[i] = trace[k].post

\* An aircraft that was already in the queue of the hold point has been
\* blocked there once more, behind a runway record that names another
\* aircraft.
C27_Witness ==
    \E k \in DOMAIN trace :
        /\ BlockedAtHold(k)
        /\ trace[k].pre.id \in queue_ids(trace[k].cap_pre, HoldOf(k))
        /\ trace[k].pre.speed = 0
        /\ \E r \in DOMAIN runways :
              /\ trace[k].cap_pre.runways[r].state # "clear"
              /\ trace[k].cap_pre.runways[r].current_aircraft # trace[k].pre.id

\* ---------------------------------------------------------------- C28
\* Round k of the last tick found its aircraft at a hold point, allowed to
\* proceed, with a runway edge as the next edge of its route.
ReleasedTowardRunway(k) ==
    /\ trace[k].pre.status \notin Terminal
    /\ trace[k].pre.current_edge_idx + 1 < Len(trace[k].pre.route.edges)
    /\ is_at_hold_point(trace[k].pre, Layout)[1]
    /\ can_proceed_from_hold(trace[k].pre, Layout, trace[k].cap_pre)
    /\ Layout.edges[trace[k].pre.route.edges[trace[k].pre.current_edge_idx + 2]].edge_type
          = "runway"

\* The records that were clear in `before` and name the aircraft in `after`.
TakenBy(before, after, id) ==
    {r \in DOMAIN before : before[r].state = "clear" /\ after[r].current_aircraft = id}

InNoQueue(queues, id) == \A h \in DOMAIN queues : TimesQueued(queues[h], id) = 0

\* C28: in the tick in which an aircraft at a hold point is released toward
\* a runway edge exactly one runway record that was clear becomes occupied
\* by it, tagged occupied_arrival for an arrival and occupied_departure for
\* a departure, every other record stays as it was, and its id is in no hold
\* queue after the hold-point step of that tick.
C28_ReleaseOccupiesOneRunway ==
    \A k \in DOMAIN trace : ReleasedTowardRunway(k) =>
        /\ Cardinality(TakenBy(trace[k].cap_pre.runways, trace[k].cap_post.runways,
                               trace[k].pre.id)) = 1
        /\ \A r \in DOMAIN trace[k].cap_post.runways :
              IF r \in TakenBy(trace[k].cap_pre.runways, trace[k].cap_post.runways,
                               trace[k].pre.id)
              THEN trace[k].cap_post.runways[r].state
                      = (IF trace[k].pre.is_arrival THEN "occupied_arrival"
                         ELSE "occupied_departure")
              ELSE trace[k].cap_post.runways[r] = trace[k].cap_pre.runways[r]
        /\ \A arr \in BOOLEAN :
              \A r \in TakenBy(trace[k].cap_pre.runways,
                               occupy_first_available(trace[k].cap_pre,
                                   [trace[k].pre EXCEPT !.is_arrival = arr],
                                   Layout).runways,
                               trace[k].pre.id) :
                  occupy_first_available(trace[k].cap_pre,
                      [trace[k].pre EXCEPT !.is_arrival = arr], Layout).runways[r].state
                  = (IF arr THEN "occupied_arrival" ELSE "occupied_departure")
        /\ InNoQueue(trace[k].cap_post.holds, trace[k].pre.id)
        /\ InNoQueue(holds, trace[k].pre.id)

\* An aircraft that had waited in the queue of the hold point has been
\* released toward the runway on a layout with two runway records.
C28_Witness ==
    \E k \in DOMAIN trace :
        /\ ReleasedTowardRunway(k)
        /\ ~InNoQueue(trace[k].cap_pre.holds, trace[k].pre.id)
        /\ Cardinality(DOMAIN runways) >= 2

\* ---------------------------------------------------------------- C29
\* The sorted list the loop of the last tick started from; place i is
\* updated in round i.
StartList == IF trace = <<>> THEN <<>> ELSE trace[1].all

SameEdgePair(i, j) ==
    /\ StartList[i].status \notin Terminal
    /\ StartList[j].status \notin Terminal
    /\ current_edge_id(StartList[i]) # NoId
    /\ current_edge_id(StartList[i]) = current_edge_id(StartList[j])

\* C29: in every tick, of two non-terminal aircraft on the same edge the one
\* with the greater position_on_edge is updated first, so that the round of
\* the follower reads the updated position of the leader; also when the two
\* are at different indices of their routes.
C29_LeaderUpdatedFirst ==
    \A i, j \in DOMAIN StartList :
        /\ SameEdgePair(i, j)
        /\ StartList[i].position_on_edge > StartList[j].position_on_edge
        => /\ i < j
           /\ trace[j].all[i] = trace[i].post

\* Two aircraft are on the same edge at different indices of their routes,
\* and the one with the smaller position was updated first.
C29_FollowerUpdatedFirst ==
    \E i, j \in DOMAIN StartList :
        /\ SameEdgePair(i, j)
        /\ StartList[i].current_edge_idx # StartList[j].current_edge_idx
        /\ StartList[i].position_on_edge > StartList[j].position_on_edge
        /\ j < i

\* Of two aircraft at the same index of their routes the one ahead is
\* updated first.
C29_SameIndexLeaderFirst ==
    \A i, j \in DOMAIN StartList :
        /\ SameEdgePair(i, j)
        /\ StartList[i].current_edge_idx = StartList[j].current_edge_idx
        /\ StartList[i].position_on_edge > StartList[j].position_on_edge
        => /\ i < j
           /\ trace[j].all[i] = trace[i].post

\* ---------------------------------------------------------------- C30
\* The metres the aircraft of round k has advanced along its route.
Advanced(k) ==
    IF /\ trace[k].post.current_edge_idx = trace[k].pre.current_edge_idx + 1
       /\ trace[k].post.current_edge_idx < Len(trace[k].post.route.edges)
    THEN (Layout.edges[current_edge_id(trace[k].pre)].length
             - trace[k].pre.position_on_edge) + trace[k].post.position_on_edge
    ELSE trace[k].post.position_on_edge - trace[k].pre.position_on_edge

\* The distance at which the aircraft of round k saw the aircraft at place j
\* of the list ahead of it: further along its edge, or on the next edge of
\* its route; NoGap when place j is not ahead of it.
GapTo(k, j) ==
    LET me == trace[k].pre
        other == trace[k].all[j]
    IN  IF other.id = me.id \/ other.status \in Terminal \/ me.status \in Terminal
           \/ current_edge_id(me) = NoId
        THEN NoGap
        ELSE IF /\ current_edge_id(other) = current_edge_id(me)
                /\ other.position_on_edge > me.position_on_edge
        THEN other.position_on_edge - me.position_on_edge
        ELSE IF /\ me.current_edge_idx + 1 < Len(me.route.edges)
                /\ current_edge_id(other) = me.route.edges[me.current_edge_idx + 2]
                /\ current_edge_id(other) # current_edge_id(me)
        THEN (Layout.edges[current_edge_id(me)].length - me.position_on_edge)
                + other.position_on_edge
        ELSE NoGap

\* C30: when an aircraft is updated while another non-terminal aircraft is
\* ahead of it on its edge or on the next edge of its route, at distance
\* gap, it advances at most max(0, gap - 10) metres in that tick.
C30_GapBrake ==
    \A k \in DOMAIN trace : \A j \in DOMAIN trace[k].all :
        GapTo(k, j) # NoGap =>
            Advanced(k) <= Max({0, GapTo(k, j) - SAFETY_BUFFER})

\* An aircraft has advanced exactly up to 10 m behind an aircraft on the
\* next edge of its route.
C30_Witness ==
    \E k \in DOMAIN trace : \E j \in DOMAIN trace[k].all :
        /\ GapTo(k, j) > SAFETY_BUFFER
        /\ current_edge_id(trace[k].all[j]) # current_edge_id(trace[k].pre)
        /\ Advanced(k) = GapTo(k, j) - SAFETY_BUFFER

\* ---------------------------------------------------------------- C31
\* Round k of the last tick moved its aircraft to or past the end of its
\* edge, and the route has a next edge.  The distance moved in a round is the
\* speed the round leaves (metres per tick).
Crossing(k) ==
    /\ trace[k].pre.status \notin Terminal
    /\ trace[k].pre.current_edge_idx + 1 < Len(trace[k].pre.route.edges)
    /\ ~BlockedAtHold(k)
    /\ trace[k].pre.position_on_edge + trace[k].post.speed
          >= Layout.edges[current_edge_id(trace[k].pre)].length

OldEdge(k) == current_edge_id(trace[k].pre)
NewEdge(k) == trace[k].pre.route.edges[trace[k].pre.current_edge_idx + 2]

\* C31: an aircraft whose position reaches or passes the length of its edge,
\* with a next route edge, leaves the occupancy of the old edge and joins that
\* of the next one, its current_edge_idx grows by one, its position is the
\* overflow, the runway record that names it is released when the edge left
\* is a runway, and its status is landing / taking_off on a runway edge and
\* taxiing_in / taxiing_out after leaving a runway for another edge.
C31_EdgeTransition ==
    \A k \in DOMAIN trace : Crossing(k) =>
        /\ trace[k].pre.id \notin SeqToSet(trace[k].cap_post.edges[OldEdge(k)].aircraft_ids)
        /\ trace[k].pre.id \in SeqToSet(trace[k].cap_post.edges[NewEdge(k)].aircraft_ids)
        /\ trace[k].post.current_edge_idx = trace[k].pre.current_edge_idx + 1
        /\ trace[k].post.position_on_edge
              = trace[k].pre.position_on_edge + trace[k].post.speed
                   - Layout.edges[OldEdge(k)].length
        /\ Layout.edges[OldEdge(k)].edge_type = "runway" =>
              \A r \in DOMAIN trace[k].cap_post.runways :
                  /\ trace[k].cap_post.runways[r].current_aircraft # trace[k].pre.id
                  /\ trace[k].cap_pre.runways[r].current_aircraft = trace[k].pre.id
                        => trace[k].cap_post.runways[r] = release(trace[k].cap_pre.runways[r])
        /\ Layout.edges[NewEdge(k)].edge_type = "runway" =>
              trace[k].post.status
                 = (IF trace[k].pre.is_arrival THEN "landing" ELSE "taking_off")
        /\ (/\ Layout.edges[OldEdge(k)].edge_type = "runway"
            /\ Layout.edges[NewEdge(k)].edge_type # "runway") =>
              trace[k].post.status
                 = (IF trace[k].pre.is_arrival THEN "taxiing_in" ELSE "taxiing_out")

\* A departure has passed from one runway edge to the next with a positive
\* overflow, releasing the runway record that named it.
C31_Witness ==
    \E k \in DOMAIN trace :
        /\ Crossing(k)
        /\ ~trace[k].pre.is_arrival
        /\ Layout.edges[OldEdge(k)].edge_type = "runway"
        /\ trace[k].post.position_on_edge > 0
        /\ \E r \in DOMAIN runways :
              /\ trace[k].cap_pre.runways[r].current_aircraft = trace[k].pre.id
              /\ trace[k].cap_post.runways[r].state = "clear"

\* An arrival has left the runway for a taxiway and taxis in.
C31_ArrivalLeavesRunway ==
    \E k \in DOMAIN trace :
        /\ Crossing(k)
        /\ trace[k].pre.is_arrival
        /\ Layout.edges[OldEdge(k)].edge_type = "runway"
        /\ Layout.edges[NewEdge(k)].edge_type # "runway"
        /\ trace[k].post.status = "taxiing_in"

\* ---------------------------------------------------------------- C32
\* The aircraft `a`, spawned on the capacity state `before`, as it stands in
\* the world `w` that the movement phase of the tick is handed.
WellSpawned(a, before, w) ==
    /\ a.route # NoRoute
    /\ a.route.edges # <<>>
    /\ a.current_edge_idx = 0
    /\ a.position_on_edge = 0
    /\ a.status = (IF a.is_arrival THEN "landing" ELSE "taxiing_out")
    /\ a.spawning_time = time
    /\ a.id # PENDING
    /\ a.gate_id \in DOMAIN before.gates
    /\ before.gates[a.gate_id].state = "free"
    /\ before.gates[a.gate_id].size_class # "none" =>
          size_order(a.aircraft_class) <= size_order(before.gates[a.gate_id].size_class)
    /\ w.cap.gates[a.gate_id].state = "occupied"
    /\ w.cap.gates[a.gate_id].occupied_by = a.id
    /\ a.id \in SeqToSet(w.cap.edges[a.route.edges[1]].aircraft_ids)
    /\ Cardinality({i \in DOMAIN w.aircraft : w.aircraft[i].id = a.id}) = 1

\* C32: every aircraft that the spawn phases of the next tick can add has,
\* when the movement phase starts, a non-empty route, current_edge_idx 0 and
\* position 0, status taxiing_out or landing, spawning_time equal to the
\* tick's time, a gate that was free and size-compatible and is now occupied
\* by the aircraft's own id, and an entry in the occupancy of its first edge.
C32_SpawnedAircraft ==
    (pc = "running" /\ step_idx < total_steps(Params(scenario))) =>
        \A dep_draw \in SpawnDraws(Layout, Params(scenario), FALSE, n_spawned) :
            LET w1 == AfterDepartures(World, Layout, Params(scenario), cache, dep_draw)
            IN  \A arr_draw \in SpawnDraws(Layout, Params(scenario), TRUE, w1.n_spawned) :
                    LET w2 == AfterArrivals(w1, Layout, Params(scenario), cache, arr_draw)
                    IN  /\ \A i \in (DOMAIN w1.aircraft) \ (DOMAIN aircraft) :
                              /\ ~w1.aircraft[i].is_arrival
                              /\ WellSpawned(w1.aircraft[i], Capacity, w1)
                              /\ WellSpawned(w2.aircraft[i], Capacity, w2)
                        /\ \A i \in (DOMAIN w2.aircraft) \ (DOMAIN w1.aircraft) :
                              /\ w2.aircraft[i].is_arrival
                              /\ WellSpawned(w2.aircraft[i], w1.cap, w2)

\* An aircraft spawned earlier in the run is listed with the properties of a
\* spawn but its position; a large departure can spawn that passes over the
\* free medium gate, and an arrival can spawn that takes a free gate and
\* starts on a runway edge.
C32_Witness ==
    /\ pc = "running" /\ step_idx < total_steps(Params(scenario))
    /\ \E i \in DOMAIN aircraft :
          /\ aircraft[i].spawning_time < time
          /\ aircraft[i].route.edges # <<>>
    /\ \E d \in SpawnDraws(Layout, Params(scenario), FALSE, n_spawned) :
          /\ DepartureAttempt(d)[1] # <<>>
          /\ DepartureAttempt(d)[1][1].aircraft_class = "large"
          /\ \E g \in DOMAIN gates :
                /\ gates[g].state = "free"
                /\ gates[g].size_class = "medium"
                /\ g < DepartureAttempt(d)[1][1].gate_id
    /\ \E d \in SpawnDraws(Layout, Params(scenario), TRUE, n_spawned) :
          /\ ArrivalAttempt(World, d)[1] # <<>>
          /\ Layout.edges[ArrivalAttempt(World, d)[1][1].route.edges[1]].edge_type
                = "runway"

\* ---------------------------------------------------------------- C33
\* C33: at every tick boundary every non-terminal aircraft has
\* position_on_edge <= the length of its current edge, also right after a
\* transition whose overflow is carried onto a short next edge.
C33_PositionWithinEdge ==
    \A i \in NonTerminal :
        current_edge_id(aircraft[i]) # NoId =>
            aircraft[i].position_on_edge
               <= Layout.edges[current_edge_id(aircraft[i])].length

\* The last tick has carried an aircraft over the end of its edge onto a
\* next edge shorter than the overflow: its position is beyond that edge.
C33_OverflowBeyondNextEdge ==
    \E k \in DOMAIN trace : \E i \in NonTerminal :
        /\ Crossing(k)
        /\ aircraft[i] = trace[k].post
        /\ trace[k].post.position_on_edge
              = trace[k].pre.position_on_edge + trace[k].post.speed
                   - Layout.edges[OldEdge(k)].length
        /\ trace[k].post.position_on_edge > Layout.edges[NewEdge(k)].length

\* Outside the tick of a transition the position stays within the edge: an
\* aircraft that did not change its edge in the last tick, and was within
\* its edge before, is strictly within it after.
C33_WithinEdgeBetweenTransitions ==
    \A k \in DOMAIN trace :
        (/\ trace[k].post.status \notin Terminal
         /\ trace[k].post.current_edge_idx = trace[k].pre.current_edge_idx
         /\ trace[k].pre.position_on_edge <= Layout.edges[OldEdge(k)].length)
        => trace[k].post.position_on_edge <= Layout.edges[OldEdge(k)].length

\* ---------------------------------------------------------------- C34
QueryKey == CacheKey(query.origin, query.destination, query.aircraft_class,
                     query.is_arrival)

\* The search of find_route for the key k on an empty cache.
FreshSearch(layout, k) == find_route(layout, EmptyCache, k[1], k[2], k[3], k[4])

\* Every cached route is the route a fresh search returns for its key.
CachedIsFresh ==
    \A k \in DOMAIN cache : cache[k] = FreshSearch(LayoutOf(scenario), k)

\* C34: after find_route has computed a non-null route for a key that was
\* not cached, the cache holds that route under that key; and whenever a key
\* is cached, the cached route equals the route of a fresh shortest-path
\* search for it.
C34_CachePopulatedOnFirstComputation ==
    /\ CachedIsFresh
    /\ (pc = "answered" /\ query.op = "find_route" /\ answer # NoRoute) =>
          /\ QueryKey \in DOMAIN cache
          /\ cache[QueryKey] = answer

\* find_route has computed a route between two different nodes for a key
\* that was not cached, and the key is still not cached.
C34_ComputedRouteNotCached ==
    /\ pc = "answered"
    /\ query.op = "find_route"
    /\ answer # NoRoute
    /\ answer.edges # <<>>
    /\ answer = FreshSearch(LayoutOf(scenario), QueryKey)
    /\ QueryKey \notin DOMAIN cache

\* The second half of C34 alone: a cached route is the fresh route of its
\* key, and find_route answers a cached key with the cached route.
C34_CachedRouteIsFresh ==
    /\ CachedIsFresh
    /\ (pc = "answered" /\ query.op = "find_route" /\ QueryKey \in DOMAIN cache) =>
          /\ answer = cache[QueryKey]
          /\ answer = FreshSearch(LayoutOf(scenario), QueryKey)

\* ---------------------------------------------------------------- C35
\* Round k of the last tick found its aircraft in the hold zone before a
\* runway edge, named by a runway record (it was released and occupied the
\* record in an earlier tick), with no record held by another aircraft.
HoldsRunwayAtHold(k) ==
    /\ trace[k].pre.status \notin Terminal
    /\ trace[k].pre.current_edge_idx + 1 < Len(trace[k].pre.route.edges)
    /\ is_at_hold_point(trace[k].pre, Layout)[1]
    /\ Layout.edges[NewEdge(k)].edge_type = "runway"
    /\ \E r \in DOMAIN trace[k].cap_pre.runways :
          trace[k].cap_pre.runways[r].current_aircraft = trace[k].pre.id
    /\ \A r \in DOMAIN trace[k].cap_pre.runways :
          trace[k].cap_pre.runways[r].current_aircraft \in {NoId, trace[k].pre.id}

\* C35: an aircraft that was released from a hold point and marked a runway
\* occupied is not blocked again at that hold point, nor put into its queue,
\* because of the runway it occupies itself: it keeps moving.
C35_NotBlockedByOwnRunway ==
    \A k \in DOMAIN trace : HoldsRunwayAtHold(k) =>
        /\ ~BlockedAtHold(k)
        /\ trace[k].pre.id \notin queue_ids(trace[k].cap_post, HoldOf(k))

\* An aircraft named by the only occupied runway record has been blocked at
\* the hold point and put into its queue.
C35_BlockedByOwnRunway ==
    \E k \in DOMAIN trace :
        /\ HoldsRunwayAtHold(k)
        /\ BlockedAtHold(k)
        /\ trace[k].post.speed = 0
        /\ trace[k].post.position_on_edge = trace[k].pre.position_on_edge
        /\ trace[k].pre.id \notin queue_ids(trace[k].cap_pre, HoldOf(k))
        /\ trace[k].pre.id \in queue_ids(trace[k].cap_post, HoldOf(k))
        /\ trace[k].pre.id \in queue_ids(Capacity, HoldOf(k))

\* ---------------------------------------------------------------- C36
OnRunwayEdge(a) ==
    /\ current_edge_id(a) \in EdgeIds(Layout)
    /\ Layout.edges[current_edge_id(a)].edge_type = "runway"

\* Every non-terminal aircraft on a runway edge is named by a runway record.
OnRunwayIsRecorded ==
    \A i \in NonTerminal : OnRunwayEdge(aircraft[i]) => aircraft[i].id \in RunwayIds

\* Every aircraft named by a runway record is on a runway edge or in the
\* last 5% of an edge that ends at a hold point.
RecordedIsAtRunway ==
    \A r \in DOMAIN runways : runways[r].current_aircraft # NoId =>
        \E i \in DOMAIN aircraft :
            /\ aircraft[i].id = runways[r].current_aircraft
            /\ OnRunwayEdge(aircraft[i]) \/ is_at_hold_point(aircraft[i], Layout)[1]

\* C36: at every tick boundary a non-terminal aircraft whose current edge is
\* a runway edge is the current_aircraft of some runway record (arrivals that
\* spawn on a runway edge included), and an aircraft named by a runway record
\* is on a runway edge or in the last 5% of an edge ending at a hold point.
C36_RunwayEdgeAndRecordAgree == OnRunwayIsRecorded /\ RecordedIsAtRunway

\* An arrival that spawned on a runway edge is on a runway edge while every
\* runway record is clear.
C36_ArrivalOnRunwayUnrecorded ==
    /\ \E i \in NonTerminal :
          /\ aircraft[i].is_arrival
          /\ aircraft[i].status = "landing"
          /\ OnRunwayEdge(aircraft[i])
          /\ Layout.edges[aircraft[i].route.edges[1]].edge_type = "runway"
    /\ \A r \in DOMAIN runways : runways[r].state = "clear"

\* The second half of C36 alone, with a record in use.
C36_RecordedIsAtRunway == RecordedIsAtRunway

\* A departure is on a runway edge that it entered from another runway edge,
\* whose record it released: no record names it.
C36_DepartureOnSecondRunwayEdge ==
    \E i \in NonTerminal :
        /\ ~aircraft[i].is_arrival
        /\ OnRunwayEdge(aircraft[i])
        /\ aircraft[i].current_edge_idx > 0
        /\ Layout.edges[aircraft[i].route.edges[aircraft[i].current_edge_idx]].edge_type
              = "runway"
        /\ aircraft[i].id \notin RunwayIds

\* ---------------------------------------------------------------- C37
NotClear == {r \in DOMAIN runways : runways[r].state # "clear"}

\* C37: at every tick boundary at most one runway record of the layout is
\* not clear, however many runway edges the layout has, and the recorded
\* runways_occupied value is 0 or 1.
C37_AtMostOneRunwayOccupied ==
    /\ Cardinality(NotClear) <= 1
    /\ metrics_snapshot.runways_occupied \in {0, 1}
    /\ step_idx > 0 => metrics_snapshot.runways_occupied = Cardinality(NotClear)

\* On a layout with two runway records one record is occupied, the other is
\* clear, and a second aircraft waits in the queue of the hold point.
C37_Witness ==
    /\ Cardinality(DOMAIN runways) >= 2
    /\ Cardinality(NotClear) = 1
    /\ metrics_snapshot.runways_occupied = 1
    /\ \E h \in DOMAIN holds : \E id \in queue_ids(Capacity, h) : id \notin RunwayIds

\* ---------------------------------------------------------------- C38
GatesNotFree == {g \in DOMAIN gates : gates[g].state # "free"}

\* The arrivals that have reached parked, by id: those still listed and those
\* whose completion was recorded (the evicted ones among them).
ParkedArrivalIds ==
    {aircraft[i].id : i \in {j \in DOMAIN aircraft :
                                aircraft[j].is_arrival /\ aircraft[j].status = "parked"}}
    \cup {metrics.completed_flights[i].id :
             i \in {j \in DOMAIN metrics.completed_flights :
                       metrics.completed_flights[j].type = "arrival"}}

\* The arrivals spawned so far in the run, by id.
ArrivalIds ==
    {aircraft[i].id : i \in {j \in DOMAIN aircraft : aircraft[j].is_arrival}}
    \cup ParkedArrivalIds

\* C38: at every tick boundary the number of gates that are not free equals
\* the number of non-terminal aircraft plus the number of arrivals that have
\* ever reached parked (evicted ones included); a gate taken by an arrival is
\* never freed, so the number of arrivals spawned in a run is at most the
\* number of gates.
C38_GateAccounting ==
    /\ Cardinality(GatesNotFree)
          = Cardinality(NonTerminal) + Cardinality(ParkedArrivalIds)
    /\ \A id \in ArrivalIds :
          \E g \in GatesNotFree : gates[g].occupied_by = id
    /\ Cardinality(ArrivalIds) <= Cardinality(DOMAIN gates)

\* On the layout with one gate an arrival has parked and has been evicted,
\* its gate is still taken, and a spawn draw of the next tick finds no gate.
C38_Witness ==
    /\ Cardinality(DOMAIN gates) = 1
    /\ aircraft = <<>>
    /\ Cardinality(ParkedArrivalIds) = 1
    /\ Cardinality(GatesNotFree) = 1
    /\ pc = "running" /\ step_idx < total_steps(Params(scenario))
    /\ \E d \in SpawnDraws(Layout, Params(scenario), TRUE, n_spawned) :
          /\ d # NoDraw
          /\ ArrivalAttempt(World, d)[1] = <<>>

\* ---------------------------------------------------------------- C39
\* The ids the last tick reported as completed, in the order of the list.
ReportedIds(snapshot) ==
    [i \in DOMAIN snapshot.completed_aircraft |-> snapshot.completed_aircraft[i].id]

RecordsOf(id) ==
    {i \in DOMAIN metrics.completed_flights : metrics.completed_flights[i].id = id}

\* A listed terminal aircraft is the same record after a tick, if it is
\* still listed: status, completion_time, position and current_edge_idx
\* (and everything else) are unchanged.
TerminalIsAbsorbing ==
    \A i \in DOMAIN aircraft : aircraft[i].status \in Terminal =>
        \A j \in DOMAIN aircraft' :
            aircraft'[j].id = aircraft[i].id =>
                /\ aircraft'[j].status = aircraft[i].status
                /\ aircraft'[j].completion_time = aircraft[i].completion_time
                /\ aircraft'[j].position_on_edge = aircraft[i].position_on_edge
                /\ aircraft'[j].current_edge_idx = aircraft[i].current_edge_idx
                /\ aircraft'[j] = aircraft[i]

\* A tick reports exactly the aircraft that became terminal in it, each once.
ReportedWhenCompleted ==
    step_idx' # step_idx =>
        /\ SeqToSet(ReportedIds(metrics_snapshot'))
              = {aircraft'[j].id : j \in {x \in DOMAIN aircraft' :
                    /\ aircraft'[x].status \in Terminal
                    /\ \A i \in DOMAIN aircraft :
                          aircraft[i].id = aircraft'[x].id
                             => aircraft[i].status \notin Terminal}}
        /\ Cardinality(SeqToSet(ReportedIds(metrics_snapshot')))
              = Len(metrics_snapshot'.completed_aircraft)
        /\ Len(metrics'.completed_flights)
              = Len(metrics.completed_flights) + Len(metrics_snapshot'.completed_aircraft)

\* Every aircraft that has become terminal, listed or evicted, has exactly
\* one completed-flight record, and every record is of such an aircraft.
OneRecordPerCompletion ==
    /\ \A i \in DOMAIN aircraft :
          Cardinality(RecordsOf(aircraft[i].id))
             = (IF aircraft[i].status \in Terminal THEN 1 ELSE 0)
    /\ \A id \in SeqToSet(completed_aircraft) : Cardinality(RecordsOf(id)) = 1
    /\ \A i \in DOMAIN metrics.completed_flights :
          /\ Cardinality(RecordsOf(metrics.completed_flights[i].id)) = 1
          /\ metrics.completed_flights[i].id
                \in SeqToSet(completed_aircraft)
                    \cup {aircraft[j].id : j \in {x \in DOMAIN aircraft :
                                                     aircraft[x].status \in Terminal}}

\* C39: terminal status is absorbing and completion happens once: after an
\* aircraft becomes departed or parked its status, completion_time, position
\* and current_edge_idx never change, it is reported in the completed list of
\* exactly one tick, and it appears exactly once in the completed-flight
\* records.
C39_TerminalAbsorbing ==
    [][TerminalIsAbsorbing /\ ReportedWhenCompleted]_vars /\ []OneRecordPerCompletion

\* A finished aircraft has been listed for two more ticks, unchanged and not
\* reported again, while an aircraft finished earlier has been evicted; each
\* has its one record.
C39_Witness ==
    /\ \E i \in DOMAIN aircraft :
          /\ aircraft[i].status \in Terminal
          /\ time - aircraft[i].completion_time = 60
          /\ Cardinality(RecordsOf(aircraft[i].id)) = 1
    /\ metrics_snapshot.completed_aircraft = <<>>
    /\ \E id \in SeqToSet(completed_aircraft) : Cardinality(RecordsOf(id)) = 1

\* ---------------------------------------------------------------- C40
\* The node through which the aircraft enters the edge at index m of its route.
EntryNode(a, m) == NodeAfter(Layout, a.route, m)

OnRoute(a) == a.status \notin Terminal /\ current_edge_id(a) # NoId

\* a and b are on the same edge, travelling it in the same direction.
SameEdgeSameWay(a, b) ==
    /\ current_edge_id(a) = current_edge_id(b)
    /\ EntryNode(a, a.current_edge_idx) = EntryNode(b, b.current_edge_idx)

\* a is strictly ahead of b along b's route: further along the edge they
\* share, or on a later edge of b's route that b will travel the same way.
StrictlyAhead(a, b) ==
    /\ OnRoute(a) /\ OnRoute(b) /\ a.id # b.id
    /\ \/ SameEdgeSameWay(a, b) /\ a.position_on_edge > b.position_on_edge
       \/ \E m \in (b.current_edge_idx + 1)..(Len(b.route.edges) - 1) :
             /\ b.route.edges[m + 1] = current_edge_id(a)
             /\ EntryNode(b, m) = EntryNode(a, a.current_edge_idx)

SamePlace(a, b) ==
    /\ OnRoute(a) /\ OnRoute(b) /\ a.id # b.id
    /\ SameEdgeSameWay(a, b)
    /\ a.position_on_edge = b.position_on_edge

\* Across a tick the order of two aircraft is kept and they do not meet.
NoOvertaking ==
    \A i, j \in DOMAIN aircraft : \A k, l \in DOMAIN aircraft' :
        (/\ aircraft'[k].id = aircraft[i].id
         /\ aircraft'[l].id = aircraft[j].id
         /\ StrictlyAhead(aircraft[i], aircraft[j]))
        => /\ ~StrictlyAhead(aircraft'[l], aircraft'[k])
           /\ ~SamePlace(aircraft'[k], aircraft'[l])

\* No two aircraft are at the same position of the same edge, at a tick
\* boundary and in the list the movement phase of the last tick started from
\* (right after its spawns).
NeverSamePlace ==
    /\ \A i, j \in DOMAIN aircraft : ~SamePlace(aircraft[i], aircraft[j])
    /\ \A i, j \in DOMAIN StartList : ~SamePlace(StartList[i], StartList[j])

\* C40: if at a tick boundary aircraft A is strictly ahead of aircraft B
\* along a route suffix they share, then at the next tick boundary B is not
\* strictly ahead of A and the two are not at the same position of the same
\* edge; and two aircraft never hold the same position on the same edge,
\* including right after a spawn.
C40_NoOvertaking == [][NoOvertaking]_vars /\ []NeverSamePlace

\* The first half of C40 alone.
C40_OrderKept == [][NoOvertaking]_vars

\* An arrival has spawned at position 0 of the runway edge on which an
\* earlier arrival still stood at position 0.
C40_SpawnedOntoAircraft ==
    \E i, j \in DOMAIN StartList :
        /\ SamePlace(StartList[i], StartList[j])
        /\ StartList[i].is_arrival /\ StartList[j].is_arrival
        /\ StartList[i].spawning_time < StartList[j].spawning_time
        /\ StartList[j].spawning_time = time - Params(scenario).time_step_size
        /\ StartList[j].position_on_edge = 0
        /\ StartList[j].current_edge_idx = 0
====
